---- MODULE Spec2Model ----
(***************************************************************************)
(* EPRoC swept-measurement acquisition engine:                             *)
(* EPRoCLogic of src/logic/eproc/eproc_logic.py together with the magnet,  *)
(* microwave, lock-in and power-supply modules it drives.                  *)
(*                                                                         *)
(* Units of the integer model                                              *)
(*   frequency : kHz          field : mG (0.001 G)                         *)
(*   time      : 0.1 ms       lock-in reading : 1e-7 V                     *)
(* Averages and remaining times are exact rationals [num, den].            *)
(***************************************************************************)
EXTENDS Integers, Sequences, FiniteSets, TLC

(***************************************************************************)
(* Bounds of the model                                                     *)
(***************************************************************************)
MaxPoints == 3      \* largest number of grid points a setter can ask for
MaxSweep  == 2      \* largest n_sweep
MaxAcc    == 2      \* largest n_accumulation
MaxGrid   == 1      \* largest number of steps of a motor axis
MaxQueue  == 2      \* most sigNextMeasure events queued at once
RetryCap  == 3      \* the re-read counter saturates here

(***************************************************************************)
(* Program constants                                                       *)
(***************************************************************************)
NumChannels         == 4          \* eproc_logic.py:621
NoiseFloor          == 1          \* 1e-7 V, eproc_logic.py:697
fs_start_default    == 2800000    \* 2800e6 Hz
fs_step_default     == 2000       \* 2e6 Hz
bs_start_default    == 3400000    \* 3400. G
bs_step_default     == 1000       \* 1. G
fs_field_default    == 3480000    \* 3480. G
bs_frequency_default == 2870000   \* 2870e6 Hz
mw_power_default    == -30
lia_tauA_default    == 1000       \* 0.1 s
lia_tauB_default    == 5          \* 0.0005 s
SETTLING_TIME       == 500        \* 0.05 s
min_frequency       == 9          \* 9e3 Hz
max_frequency       == 3200000    \* 3.2e9 Hz
min_power           == -145
max_power           == 30
sweep_minstep       == 1          \* 0.1 Hz, rounded up to the 1 kHz resolution
sweep_maxentries    == 10001
list_maxentries     == 1

SETTLING_TIME_LARGE == 20 * SETTLING_TIME
sweep_maxstep       == max_frequency - min_frequency

Unset == -1         \* an attribute that has not been assigned yet
Raised == -2        \* the call ended with an exception instead of a return value

(***************************************************************************)
(* Exact rational arithmetic (stands for float64 values)                   *)
(***************************************************************************)
Abs(n) == IF n < 0 THEN -n ELSE n

RECURSIVE GCD(_, _)
GCD(a, b) == IF b = 0 THEN a ELSE GCD(b, a % b)

NaN == [num |-> 0, den |-> 0]     \* 0/0, the mean of an empty slice

Rat(n, d) ==
    LET g == GCD(Abs(n), Abs(d))
        s == IF d < 0 THEN -1 ELSE 1
    IN  IF d = 0 THEN NaN ELSE [num |-> (s * n) \div g, den |-> (s * d) \div g]

RatZero == [num |-> 0, den |-> 1]
NoEstimate == [num |-> Unset, den |-> 1]   \* nothing emitted yet

RatLeq(p, q) == p.num * q.den <= q.num * p.den

RatMinus(p, q) == Rat(p.num * q.den - q.num * p.den, p.den * q.den)

(***************************************************************************)
(* numpy helpers                                                           *)
(***************************************************************************)
CeilDiv(a, b) == IF a % b = 0 THEN a \div b ELSE (a \div b) + 1

\* np.arange(start, stop, step) for step /= 0: ceil((stop - start)/step) values
ArangeLen(start, stop, step) ==
    LET n == IF step > 0 THEN CeilDiv(stop - start, step)
                         ELSE CeilDiv(start - stop, -step)
    IN  IF n < 0 THEN 0 ELSE n

np_arange(start, stop, step) ==
    [i \in 1..ArangeLen(start, stop, step) |-> start + (i - 1) * step]

\* np.round(v, 2) of a field given in mG: nearest multiple of 10, ties to even
np_round2(v) ==
    LET q == v \div 10
        r == v % 10
    IN  IF r < 5 THEN 10 * q
        ELSE IF r > 5 THEN 10 * (q + 1)
        ELSE IF q % 2 = 0 THEN 10 * q ELSE 10 * (q + 1)

\* int(np.rint(a / b)) for b /= 0: the nearest integer, ties to the even one
np_rint(a, b) ==
    LET q == Abs(a) \div Abs(b)
        r == Abs(a) % Abs(b)
        m == IF 2 * r < Abs(b) THEN q
             ELSE IF 2 * r > Abs(b) THEN q + 1
             ELSE IF q % 2 = 0 THEN q ELSE q + 1
    IN  IF (a < 0) = (b < 0) THEN m ELSE -m

ZeroSample == [c \in 1..NumChannels |-> 0]

Cells(shape) == (0..(shape[1] - 1)) \X (0..(shape[2] - 1)) \X (0..(shape[3] - 1))

\* np.zeros([n_accumulation, n_sweep, points, 4])
np_zeros(shape) == [shape |-> shape, data |-> [cell \in Cells(shape) |-> ZeroSample]]

RECURSIVE SumOver(_, _, _)
SumOver(data, S, c) ==
    IF S = {} THEN 0
    ELSE LET e == CHOOSE e \in S : TRUE
         IN  data[e][c] + SumOver(data, S \ {e}, c)

Min(a, b) == IF a < b THEN a ELSE b

\* raw[:, :hi, x, :] : the cells of the slice
SliceCells(shape, hi, x) ==
    {cell \in Cells(shape) : cell[2] < Min(hi, shape[2]) /\ cell[3] = x}

\* np.mean(raw[:, :hi, x, :], axis=(0, 1))
np_mean(raw, hi, x) ==
    LET S == SliceCells(raw.shape, hi, x)
    IN  [c \in 1..NumChannels |-> Rat(SumOver(raw.data, S, c), Cardinality(S))]

(***************************************************************************)
(* Hardware modules                                                        *)
(***************************************************************************)
\* MicrowaveLimits.in_range
in_range(value, lower, upper) ==
    IF value > upper THEN upper ELSE IF value < lower THEN lower ELSE value

frequency_in_range(f) == in_range(f, min_frequency, max_frequency)
power_in_range(p) == in_range(p, min_power, max_power)
sweep_step_in_range(s) == in_range(s, sweep_minstep, sweep_maxstep)

\* MicrowaveDummy.set_cw / set_sweep: the device reports what it was given
mw_set_cw(frequency, power) == <<frequency, power>>
mw_set_sweep(start, stop, step, power) == <<start, stop, step, power>>

\* MagnetBrukerDummy: [sweep_list, remaining_fields, field]
magnet_set_central_field(m, field) == [m EXCEPT !.field = field]

magnet_set_sweep(m, start, stop, step) ==
    LET a == np_round2(start)
        o == np_round2(stop)
        e == np_round2(step)
        l == np_arange(a, o + e, e)
    IN  [sweep_list |-> l, remaining_fields |-> l, field |-> a - e]

magnet_triggerStuck(m) == [m EXCEPT !.field = Head(m.remaining_fields)]

magnet_trigger(m) ==
    [m EXCEPT !.field = Head(m.remaining_fields),
              !.remaining_fields = Tail(m.remaining_fields)]

magnet_reset_sweeppos(m) ==
    [m EXCEPT !.remaining_fields = m.sweep_list,
              !.field = m.sweep_list[1] - (m.sweep_list[2] - m.sweep_list[1])]

(***************************************************************************)
(* Inputs                                                                  *)
(***************************************************************************)
\* readings of the lock-in, 4 channels each
GoodA == <<3, -1, 2, 5>>
GoodB == <<1, 4, -2, 1>>
BadC3 == <<2, 2, 0, 2>>       \* channel 3 below the noise floor
BadC1 == <<0, 2, 2, 2>>       \* channel 1 below the noise floor

PosA  == <<3, 1, 2, 5>>       \* every channel above the noise floor
PosB  == <<1, 4, 2, 1>>

ValidReadings == {GoodA, GoodB}
AllReadings   == {GoodA, GoodB, BadC3, BadC1}

\* the signal of the lock-in: a periodic sequence of readings
Signals(R) == {<<a>> : a \in R} \cup {<<a, b>> : a \in R, b \in R}

\* numbers of steps between start and stop that a stored range may have
PointRange == 0..(MaxPoints - 1)

(***************************************************************************)
(* State                                                                   *)
(***************************************************************************)
VARIABLES
    \* stored parameters (StatusVar)
    n_sweep, n_accumulation, is_fs, fs, bs, lia, ref, f_multiplier, psb, psa,
    is_lia_ext_ref,
    \* engine
    module_state, is_eproc_running, stopRequested, stopNextSweepRequested,
    elapsed_sweeps, elapsed_accumulations, elapsed_x,
    eproc_plot_x, eproc_plot_y, eproc_raw_data, lia_waiting_time,
    \* a tick inside the re-read loop of _get_data_lia (it holds threadlock)
    tick_pc, chan_i, retries,
    \* a caller of set_eproc_scan_parameters that has passed the module_state
    \* check of line 402 and not yet assigned: its arguments, <<>> if none
    scan_call,
    \* hardware
    magnet, lia_signal, lia_reads,
    \* event queue and observation of the last operation
    pending, lastOp, ret, hw_calls, signals, written, requests, remaining_time,
    \* stage mapping (eproc/magnet_mapping_logic.py): the running flag, the
    \* motor ranges [x, y, z], the actual position, the queued sigStartNextEproc
    \* and sigNextPosition, and the positions at which a spectrum was started
    is_eproc_mapping_running, motors, actual, start_pending, position_pending,
    spectra,
    \* the sweep lists of eproc_mwsweep_logic.py and its estimate of the
    \* duration of the scan
    mw_starts, mw_stops, mw_steps, sweep_mw_power, total_time

paramVars == <<n_sweep, n_accumulation, is_fs, fs, bs, lia, ref, f_multiplier, psb,
               psa, is_lia_ext_ref>>
engineVars == <<module_state, is_eproc_running, stopRequested, stopNextSweepRequested,
                elapsed_sweeps, elapsed_accumulations, elapsed_x,
                eproc_plot_x, eproc_plot_y, eproc_raw_data, lia_waiting_time>>
tickVars == <<tick_pc, chan_i, retries, scan_call>>
mapVars == <<is_eproc_mapping_running, motors, actual, start_pending, position_pending,
             spectra>>
sweepVars == <<mw_starts, mw_stops, mw_steps, sweep_mw_power, total_time>>
otherVars == <<mapVars, sweepVars>>
hwVars == <<magnet, lia_signal, lia_reads>>
obsVars == <<pending, lastOp, ret, hw_calls, signals, written, requests,
             remaining_time>>
vars == <<paramVars, engineVars, tickVars, otherVars, hwVars, obsVars>>

pointCount == Len(eproc_plot_x)

\* eproc_plot_x and eproc_plot_y as _initialize_eproc_plots builds them
PlotX(isfs, f, b) ==
    IF isfs THEN np_arange(f.start, f.stop + f.step, f.step)
            ELSE np_arange(b.start, b.stop + b.step, b.step)

PlotYShort(x) == [i \in 1..(Len(x) - 1) |-> [c \in 1..NumChannels |-> RatZero]]

\* np.zeros([eproc_plot_x.size, 4])
PlotY(x) == [i \in 1..Len(x) |-> [c \in 1..NumChannels |-> RatZero]]

LiaDefault ==
    [range |-> "0.1", uac |-> 0, coupling |-> "ac", int_freq |-> 0,
     tauA |-> lia_tauA_default, phaseA |-> 0, tauB |-> lia_tauB_default, phaseB |-> 0,
     waiting_time_factor |-> 1, harmonic |-> "1", slope |-> "6",
     configuration |-> "A&B"]

RefDefault == [freq |-> 1000000, dev |-> 1000, mode |-> "HBAN"]
PsDefault == [voltage_outp1 |-> 2, voltage_outp2 |-> 2,
              current_max_outp1 |-> 1, current_max_outp2 |-> 1]

\* on_activate, with the recalled status variables drawn from the input sets
\* one axis of the stage: start, step, stop
Axis(start, step, stop) == [start |-> start, step |-> step, stop |-> stop]

\* the stage of magnet_mapping_logic.py before any mapping
MapIdle(m) ==
    /\ is_eproc_mapping_running = FALSE
    /\ motors = m
    /\ actual = [x |-> m.x.start, y |-> m.y.start, z |-> m.z.start]
    /\ start_pending = 0
    /\ position_pending = 0
    /\ spectra = <<>>

\* the sweep lists of eproc_mwsweep_logic.py: one range
SweepLists(k) ==
    /\ mw_starts = <<fs_start_default>>
    /\ mw_steps = <<fs_step_default>>
    /\ mw_stops = <<fs_start_default + k * fs_step_default>>
    /\ sweep_mw_power = mw_power_default
    /\ total_time = NoEstimate

EngineInit(SignalSet, SweepSet, AccSet, StopSet) ==
    /\ n_sweep \in SweepSet
    /\ n_accumulation \in AccSet
    /\ is_fs \in BOOLEAN
    /\ \E k \in StopSet :
          /\ fs = [start |-> fs_start_default, step |-> fs_step_default,
                   stop |-> fs_start_default + k * fs_step_default,
                   field |-> fs_field_default, mw_power |-> mw_power_default]
          /\ bs = [start |-> bs_start_default, step |-> bs_step_default,
                   stop |-> bs_start_default + k * bs_step_default,
                   frequency |-> bs_frequency_default, mw_power |-> mw_power_default]
    /\ lia = LiaDefault
    /\ ref = RefDefault
    /\ f_multiplier = 32
    /\ psb = PsDefault
    /\ psa = PsDefault
    /\ is_lia_ext_ref = TRUE
    /\ module_state = "idle"
    /\ is_eproc_running = FALSE
    /\ stopRequested = FALSE
    /\ stopNextSweepRequested = FALSE
    /\ elapsed_sweeps = 0
    /\ elapsed_accumulations = 0
    /\ elapsed_x = Unset
    /\ eproc_plot_x = PlotX(is_fs, fs, bs)
    /\ eproc_plot_y = PlotY(eproc_plot_x)
    /\ eproc_raw_data = np_zeros(<<n_accumulation, n_sweep, Len(eproc_plot_x), NumChannels>>)
    /\ lia_waiting_time = Unset
    /\ tick_pc = "idle"
    /\ chan_i = 0
    /\ retries = 0
    /\ scan_call = <<>>
    /\ magnet = [sweep_list |-> <<>>, remaining_fields |-> <<>>, field |-> fs.field]
    /\ lia_signal \in SignalSet
    /\ lia_reads = 0
    /\ pending = 0
    /\ lastOp = "on_activate"
    /\ ret = 0
    /\ hw_calls = <<>>
    /\ signals = <<>>
    /\ written = <<>>
    /\ requests = {}
    /\ remaining_time = NoEstimate

InitWith(SignalSet, SweepSet, AccSet, StopSet) ==
    /\ MapIdle([x |-> Axis(0, 0, 0), y |-> Axis(0, 0, 0), z |-> Axis(0, 0, 0)])
    /\ SweepLists(1)
    /\ EngineInit(SignalSet, SweepSet, AccSet, StopSet)

Init == InitWith(Signals(ValidReadings), 1..MaxSweep, 1..MaxAcc, PointRange \ {0})

(***************************************************************************)
(* Private helpers of EPRoCLogic                                           *)
(***************************************************************************)
UpdateRemainingTimeRising(isfs, size, n_acc, wait, n_sw, e_sweeps, e_x) ==
    LET fs_time == size * n_acc * wait
        sweep_time == IF isfs THEN fs_time
                      ELSE fs_time + size * SETTLING_TIME + SETTLING_TIME_LARGE
    IN  Rat(sweep_time * ((n_sw - e_sweeps) * size + e_x), size)

\* _update_remaining_time: the value emitted with sigEprocRemainingTimeUpdated
UpdateRemainingTime(isfs, size, n_acc, wait, n_sw, e_sweeps, e_x) ==
    LET fs_time == size * n_acc * wait
        sweep_time == IF isfs THEN fs_time
                      ELSE fs_time + size * SETTLING_TIME + SETTLING_TIME_LARGE
    IN  Rat(sweep_time * ((n_sw - e_sweeps) * size - e_x), size)

\* _set_frequency_sweep: the step handed to the device
FrequencySweepStep(f) ==
    IF f.step > 0 /\ Abs(f.stop - f.start) >= sweep_maxentries * f.step
    THEN Abs(f.stop - f.start) \div (list_maxentries - 1)
    ELSE f.step

TriggerCallOtherAxis(isfs) == IF isfs THEN "magnet.trigger" ELSE "mw.trigger"

\* _trigger_next_x
TriggerCall(isfs) == IF isfs THEN "mw.trigger" ELSE "magnet.trigger"
TriggerMagnetNone(isfs, m) == m

TriggerMagnet(isfs, m) == IF isfs THEN m ELSE magnet_trigger(m)

ResetCall(isfs) == IF isfs THEN "mw.reset_sweeppos" ELSE "magnet.reset_sweeppos"
ResetMagnet(isfs, m) == IF isfs THEN m ELSE magnet_reset_sweeppos(m)

\* _average_data: the slice bound of raw[:, :elapsed_sweeps + 1, elapsed_x, :]
AverageSliceEndShort(e_sweeps) == e_sweeps

AverageSliceEnd(e_sweeps) == e_sweeps + 1

AverageDataNextRow(y, raw, e_sweeps, e_x) ==
    [y EXCEPT ![Min(e_x + 2, Len(y))] = np_mean(raw, AverageSliceEnd(e_sweeps), e_x)]

AverageData(y, raw, e_sweeps, e_x) ==
    [y EXCEPT ![e_x + 1] = np_mean(raw, AverageSliceEnd(e_sweeps), e_x)]

\* the decision that ends a run at a wrap of the point index
WrapStopsEarly(e_sweeps, n_sw, stopNext) == e_sweeps + 1 = n_sw \/ stopNext

WrapStopsNever(e_sweeps, n_sw, stopNext) == stopNext

WrapStops(e_sweeps, n_sw, stopNext) == e_sweeps = n_sw \/ stopNext

\* _set_new_x_value on the cube `raw`
SetNewXValue(raw) ==
    LET acc == elapsed_accumulations + 1
    IN  IF acc # n_accumulation
        THEN [acc |-> acc, x |-> elapsed_x, sweeps |-> elapsed_sweeps,
              stop |-> stopRequested, y |-> eproc_plot_y, calls |-> <<>>,
              magnet |-> magnet]
        ELSE LET y1 == AverageData(eproc_plot_y, raw, elapsed_sweeps, elapsed_x)
                 x1 == elapsed_x + 1
             IN  IF x1 # pointCount
                 THEN [acc |-> 0, x |-> x1, sweeps |-> elapsed_sweeps,
                       stop |-> stopRequested, y |-> y1,
                       calls |-> <<TriggerCall(is_fs)>>,
                       magnet |-> TriggerMagnet(is_fs, magnet)]
                 ELSE [acc |-> 0, x |-> 0, sweeps |-> elapsed_sweeps + 1,
                       stop |-> stopRequested
                                \/ WrapStops(elapsed_sweeps + 1, n_sweep,
                                             stopNextSweepRequested),
                       y |-> y1,
                       calls |-> <<ResetCall(is_fs), TriggerCall(is_fs)>>,
                       magnet |-> TriggerMagnet(is_fs, ResetMagnet(is_fs, magnet))]

(***************************************************************************)
(* Public operations that take threadlock                                  *)
(***************************************************************************)
Observe(op, r, calls, sigs) ==
    /\ lastOp' = op
    /\ ret' = r
    /\ hw_calls' = calls
    /\ signals' = sigs

\* the sweep parameters start_eproc stores back from the device
StartedFs ==
    LET r == mw_set_sweep(fs.start, fs.stop, FrequencySweepStep(fs), fs.mw_power)
    IN  IF is_fs
        THEN [fs EXCEPT !.start = r[1], !.stop = r[2], !.step = r[3], !.mw_power = r[4]]
        ELSE fs

StartedMagnet ==
    IF is_fs THEN magnet_set_central_field(magnet, fs.field)
             ELSE magnet_set_sweep(magnet, bs.start, bs.stop, bs.step)

StartedBs ==
    LET m == StartedMagnet
        c == mw_set_cw(bs.frequency, bs.mw_power)
    IN  IF is_fs THEN bs
        ELSE [bs EXCEPT !.start = np_round2(bs.start), !.stop = np_round2(bs.stop),
                        !.step = np_round2(bs.step),
                        !.frequency = c[1], !.mw_power = c[2]]

StartCalls ==
    IF is_fs
    THEN <<"mw.set_sweep", "mw.set_int_trigger", "magnet.set_central_field",
           "mw.trigger">>
    ELSE <<"magnet.set_sweep", "mw.set_cw", "magnet.trigger">>

Max(a, b) == IF a > b THEN a ELSE b

\* the dimensions start_eproc allocates the raw cube with
StartShapeSwapped(n_acc, n_sw, size) == <<n_sw, n_acc, size, NumChannels>>

StartShape(n_acc, n_sw, size) == <<n_acc, n_sw, size, NumChannels>>

\* the busy check of start_eproc
StartRefusedNever == FALSE

StartRefused == module_state = "locked"

start_eproc ==
    /\ tick_pc = "idle"
    /\ IF StartRefused
       THEN /\ Observe("start_eproc", -1, <<>>, <<>>)
            /\ UNCHANGED <<paramVars, engineVars, tickVars, otherVars, hwVars, pending, written,
                           requests, remaining_time>>
       ELSE LET x == PlotX(is_fs, StartedFs, StartedBs)
                wait == Max(lia.tauA, lia.tauB) * lia.waiting_time_factor
            IN  /\ fs' = StartedFs
                /\ bs' = StartedBs
                /\ lia_waiting_time' = wait
                /\ elapsed_sweeps' = 0
                /\ elapsed_accumulations' = 0
                /\ elapsed_x' = 0
                /\ eproc_plot_x' = x
                /\ eproc_plot_y' = PlotY(x)
                /\ eproc_raw_data' = np_zeros(StartShape(n_accumulation, n_sweep, Len(x)))
                /\ module_state' = "locked"
                /\ stopRequested' = FALSE
                /\ stopNextSweepRequested' = FALSE
                /\ remaining_time' =
                       UpdateRemainingTime(is_fs, Len(x), n_accumulation, wait,
                                           n_sweep, 0, 0)
                /\ is_eproc_running' = TRUE
                /\ magnet' = TriggerMagnet(is_fs, StartedMagnet)
                /\ pending' = pending + 1
                /\ written' = <<>>
                /\ requests' = {}
                /\ Observe("start_eproc", 0, StartCalls,
                           <<"sigParameterUpdated", "sigEprocPlotsUpdated",
                             "sigSetLabelEprocPlots", "sigEprocRemainingTimeUpdated",
                             "sigStatusUpdated", "sigNextDataPoint">>)
                /\ UNCHANGED <<n_sweep, n_accumulation, is_fs, lia, ref, f_multiplier,
                               psb, psa, is_lia_ext_ref, tickVars, otherVars, lia_signal,
                               lia_reads>>

StopFlagsUnset(stopReq, stopNext) == <<stopReq, stopNext>>

\* the flags <<stopRequested, stopNextSweepRequested>> after an accepted request
StopFlags(stopReq, stopNext) == <<TRUE, stopNext>>

NextSweepFlagsAsStop(stopReq, stopNext) == <<TRUE, stopNext>>

NextSweepFlagsDropped(stopReq, stopNext) == <<stopReq, stopNext>>

NextSweepFlags(stopReq, stopNext) == <<stopReq, TRUE>>

stop_eproc ==
    /\ tick_pc = "idle"
    /\ stopRequested' = IF module_state = "locked"
                        THEN StopFlags(stopRequested, stopNextSweepRequested)[1]
                        ELSE stopRequested
    /\ requests' = IF module_state = "locked" THEN requests \cup {"stop_eproc"}
                                                ELSE requests
    /\ Observe("stop_eproc", 0, <<>>, <<>>)
    /\ UNCHANGED <<paramVars, module_state, is_eproc_running, stopNextSweepRequested,
                   elapsed_sweeps, elapsed_accumulations, elapsed_x, eproc_plot_x,
                   eproc_plot_y, eproc_raw_data, lia_waiting_time, tickVars, otherVars, hwVars,
                   pending, written, remaining_time>>

stop_eproc_next_sweep ==
    /\ tick_pc = "idle"
    /\ LET f == IF module_state = "locked"
                THEN NextSweepFlags(stopRequested, stopNextSweepRequested)
                ELSE <<stopRequested, stopNextSweepRequested>>
       IN  /\ stopRequested' = f[1]
           /\ stopNextSweepRequested' = f[2]
    /\ requests' = IF module_state = "locked"
                   THEN requests \cup {"stop_eproc_next_sweep"}
                   ELSE requests
    /\ Observe("stop_eproc_next_sweep", 0, <<>>, <<>>)
    /\ UNCHANGED <<paramVars, module_state, is_eproc_running,
                   elapsed_sweeps, elapsed_accumulations, elapsed_x, eproc_plot_x,
                   eproc_plot_y, eproc_raw_data, lia_waiting_time, tickVars, otherVars, hwVars,
                   pending, written, remaining_time>>

(***************************************************************************)
(* The tick: _next_data_point, queued by sigNextDataPoint                  *)
(***************************************************************************)
\* LockinInterface.get_data_lia()[:4]
NextReading == lia_signal[(lia_reads % Len(lia_signal)) + 1]

CurrentCell == <<elapsed_accumulations, elapsed_sweeps, elapsed_x>>

\* eproc_raw_data[elapsed_accumulations, elapsed_sweeps, elapsed_x, :] = reading
StoreReading(raw, reading) == [raw EXCEPT !.data[CurrentCell] = reading]

Invalid(v) == Abs(v) < NoiseFloor

\* the channel at which the loop of _get_data_lia stops to re-read: the first
\* channel i >= from whose stored value is invalid, 0 when the loop ends
FirstInvalid(sample, from) ==
    LET S == {i \in from..NumChannels : Invalid(sample[i])}
    IN  IF S = {} THEN 0 ELSE CHOOSE i \in S : \A j \in S : i <= j

\* the rest of the tick once _get_data_lia has returned with cube `raw`
TickFinish(raw, calls) ==
    LET n == SetNewXValue(raw)
    IN  /\ eproc_raw_data' = raw
        /\ elapsed_accumulations' = n.acc
        /\ elapsed_x' = n.x
        /\ elapsed_sweeps' = n.sweeps
        /\ stopRequested' = n.stop
        /\ eproc_plot_y' = n.y
        /\ magnet' = n.magnet
        /\ remaining_time' =
               UpdateRemainingTime(is_fs, pointCount, n_accumulation, lia_waiting_time,
                                   n_sweep, n.sweeps, n.x)
        /\ written' = Append(written, <<CurrentCell, raw.data[CurrentCell]>>)
        /\ tick_pc' = "idle"
        /\ chan_i' = 0
        /\ retries' = 0
        /\ Observe("_next_data_point", 0, calls \o n.calls,
                   <<"sigEprocRemainingTimeUpdated", "sigEprocPlotsUpdated",
                     "sigNextDataPoint">>)
        /\ UNCHANGED <<paramVars, module_state, is_eproc_running,
                       stopNextSweepRequested, eproc_plot_x, lia_waiting_time,
                       lia_signal, requests, scan_call, otherVars>>

\* the tick stays in the re-read loop at channel j, holding threadlock
TickRetry(raw, j, n, calls) ==
    /\ eproc_raw_data' = raw
    /\ tick_pc' = "retry"
    /\ chan_i' = j
    /\ retries' = n
    /\ Observe("_next_data_point", 0, calls, <<>>)
    /\ UNCHANGED <<paramVars, module_state, is_eproc_running, stopRequested,
                   stopNextSweepRequested, elapsed_sweeps, elapsed_accumulations,
                   elapsed_x, eproc_plot_x, eproc_plot_y, lia_waiting_time, magnet,
                   lia_signal, written, requests, remaining_time, scan_call,
                   otherVars>>

TickStopClearing ==
    /\ stopRequested' = FALSE
    /\ is_eproc_running' = FALSE
    /\ module_state' = "idle"
    /\ eproc_plot_y' = PlotY(eproc_plot_x)
    /\ Observe("_next_data_point", 0, <<>>, <<"sigStatusUpdated">>)
    /\ UNCHANGED <<paramVars, stopNextSweepRequested, elapsed_sweeps,
                   elapsed_accumulations, elapsed_x, eproc_plot_x,
                   eproc_raw_data, lia_waiting_time, tickVars, otherVars, hwVars, written,
                   requests, remaining_time>>

TickStopReducing ==
    /\ stopRequested' = FALSE
    /\ is_eproc_running' = FALSE
    /\ module_state' = "idle"
    /\ eproc_plot_y' = AverageData(eproc_plot_y, eproc_raw_data, elapsed_sweeps,
                                   elapsed_x)
    /\ Observe("_next_data_point", 0, <<>>, <<"sigStatusUpdated">>)
    /\ UNCHANGED <<paramVars, stopNextSweepRequested, elapsed_sweeps,
                   elapsed_accumulations, elapsed_x, eproc_plot_x,
                   eproc_raw_data, lia_waiting_time, tickVars, otherVars, hwVars, written,
                   requests, remaining_time>>

TickStopStillRunning ==
    /\ stopRequested' = FALSE
    /\ module_state' = "idle"
    /\ Observe("_next_data_point", 0, <<>>, <<"sigStatusUpdated">>)
    /\ UNCHANGED <<paramVars, is_eproc_running, stopNextSweepRequested, elapsed_sweeps,
                   elapsed_accumulations, elapsed_x, eproc_plot_x, eproc_plot_y,
                   eproc_raw_data, lia_waiting_time, tickVars, otherVars, hwVars, written,
                   requests, remaining_time>>

\* the stop branch: the run ends
TickStop ==
    /\ stopRequested' = FALSE
    /\ is_eproc_running' = FALSE
    /\ module_state' = "idle"
    /\ Observe("_next_data_point", 0, <<>>, <<"sigStatusUpdated">>)
    /\ UNCHANGED <<paramVars, stopNextSweepRequested, elapsed_sweeps,
                   elapsed_accumulations, elapsed_x, eproc_plot_x, eproc_plot_y,
                   eproc_raw_data, lia_waiting_time, tickVars, otherVars, hwVars, written,
                   requests, remaining_time>>

\* the stop check at the head of the tick
StopBranchNever == FALSE

StopBranch == stopRequested

_next_data_point ==
    /\ pending > 0
    /\ tick_pc = "idle"
    /\ IF module_state # "locked"
       THEN /\ pending' = pending - 1
            /\ Observe("_next_data_point", 0, <<>>, <<>>)
            /\ UNCHANGED <<paramVars, engineVars, tickVars, otherVars, hwVars, written,
                           requests, remaining_time>>
       ELSE IF StopBranch
       THEN /\ pending' = pending - 1
            /\ TickStop
       ELSE IF CurrentCell \notin DOMAIN eproc_raw_data.data
       THEN \* IndexError in the first assignment of _get_data_lia, after the
            \* lock-in was read: the slot ends, nothing is emitted
            /\ pending' = pending - 1
            /\ lia_reads' = (lia_reads + 1) % Len(lia_signal)
            /\ Observe("_next_data_point", Raised, <<"sleep", "lia.get_data_lia">>, <<>>)
            /\ UNCHANGED <<paramVars, engineVars, tickVars, otherVars, magnet, lia_signal,
                           written, requests, remaining_time>>
       ELSE LET raw == StoreReading(eproc_raw_data, NextReading)
                j == FirstInvalid(raw.data[CurrentCell], 1)
            IN  /\ lia_reads' = (lia_reads + 1) % Len(lia_signal)
                /\ IF j = 0
                   THEN /\ pending' = pending
                        /\ TickFinish(raw, <<"sleep", "lia.get_data_lia">>)
                   ELSE /\ pending' = pending - 1
                        /\ TickRetry(raw, j, 0, <<"sleep", "lia.get_data_lia">>)

\* one pass of the while loop of _get_data_lia: sleep 0.01 s and read again
reread_data_lia ==
    /\ tick_pc = "retry"
    /\ LET raw == StoreReading(eproc_raw_data, NextReading)
           j == FirstInvalid(raw.data[CurrentCell], chan_i)
           n == IF retries < RetryCap THEN retries + 1 ELSE retries
       IN  /\ lia_reads' = (lia_reads + 1) % Len(lia_signal)
           /\ IF j = 0
              THEN /\ pending' = pending + 1
                   /\ TickFinish(raw, <<"sleep", "lia.get_data_lia">>)
              ELSE /\ pending' = pending
                   /\ TickRetry(raw, j, n, <<"sleep", "lia.get_data_lia">>)

(***************************************************************************)
(* Parameter setters (they do not take threadlock)                         *)
(***************************************************************************)
engineFrame == <<engineVars, tickVars, otherVars, lia_signal, lia_reads, pending, written,
                 requests, remaining_time>>

\* the body of set_fs_parameters once the lock and type checks have passed
FsAccepted(start, step, stop, field, freq_pos) ==
    LET stop1 == IF stop <= start THEN start + step ELSE stop
        f0 == [fs EXCEPT !.start = frequency_in_range(start),
                         !.step = sweep_step_in_range(step),
                         !.stop = frequency_in_range(stop1)]
        cw == IF freq_pos = 0 THEN mw_set_cw(f0.start, f0.mw_power)
              ELSE IF freq_pos = 1 THEN mw_set_cw((f0.start + f0.stop) \div 2, f0.mw_power)
              ELSE mw_set_cw(f0.stop, f0.mw_power)
    IN  [f0 EXCEPT !.start = IF freq_pos = 0 THEN cw[1] ELSE f0.start,
                   !.stop = IF freq_pos = 2 THEN cw[1] ELSE f0.stop,
                   !.mw_power = IF freq_pos \in {0, 1, 2} THEN cw[2] ELSE f0.mw_power,
                   !.field = field]

FsCalls(freq_pos) ==
    (IF freq_pos \in {0, 1, 2} THEN <<"mw.set_cw">> ELSE <<>>)
        \o <<"magnet.set_central_field">>

set_fs_parameters(start, step, stop, field, power, freq_pos, numeric) ==
    /\ IF module_state # "locked" /\ numeric
       THEN /\ fs' = FsAccepted(start, step, stop, field, freq_pos)
            /\ magnet' = magnet_set_central_field(magnet, field)
            /\ Observe("set_fs_parameters", 0, FsCalls(freq_pos),
                       <<"sigParameterUpdated">>)
       ELSE /\ UNCHANGED <<fs, magnet>>
            /\ Observe("set_fs_parameters", 0, <<>>, <<"sigParameterUpdated">>)
    /\ UNCHANGED <<n_sweep, n_accumulation, is_fs, bs, lia, ref, f_multiplier, psb,
                   psa, is_lia_ext_ref, engineFrame>>

\* the body of set_bs_parameters once the lock and type checks have passed
BsAccepted(start, step, stop, frequency, power, field_pos) ==
    LET stop1 == IF stop <= start THEN start + step ELSE stop
        cw == mw_set_cw(frequency_in_range(frequency), power_in_range(power))
    IN  [start |-> start, step |-> step, stop |-> stop1,
         frequency |-> cw[1], mw_power |-> cw[2]]

BsField(b, field_pos) ==
    IF field_pos = 0 THEN b.start
    ELSE IF field_pos = 1 THEN (b.start + b.stop) \div 2
    ELSE b.stop

BsCalls(field_pos) ==
    (IF field_pos \in {0, 1, 2} THEN <<"magnet.set_central_field">> ELSE <<>>)
        \o <<"mw.set_cw">>

set_bs_parameters(start, step, stop, frequency, power, field_pos, numeric) ==
    /\ IF module_state # "locked" /\ numeric
       THEN LET b == BsAccepted(start, step, stop, frequency, power, field_pos)
            IN  /\ bs' = b
                /\ magnet' = IF field_pos \in {0, 1, 2}
                             THEN magnet_set_central_field(magnet, BsField(b, field_pos))
                             ELSE magnet
                /\ Observe("set_bs_parameters", 0, BsCalls(field_pos),
                           <<"sigParameterUpdated">>)
       ELSE /\ UNCHANGED <<bs, magnet>>
            /\ Observe("set_bs_parameters", 0, <<>>, <<"sigParameterUpdated">>)
    /\ UNCHANGED <<n_sweep, n_accumulation, is_fs, fs, lia, ref, f_multiplier, psb,
                   psa, is_lia_ext_ref, engineFrame>>

fs_on ==
    /\ IF module_state = "locked"
       THEN /\ UNCHANGED <<fs, is_fs, magnet>>
            /\ Observe("fs_on", 0, <<>>, <<>>)
       ELSE /\ fs' = FsAccepted(fs.start, fs.step, fs.stop, fs.field, 0)
            /\ magnet' = magnet_set_central_field(magnet, fs.field)
            /\ is_fs' = TRUE
            /\ Observe("fs_on", 0, FsCalls(0),
                       <<"sigParameterUpdated", "sigStatusUpdated">>)
    /\ UNCHANGED <<n_sweep, n_accumulation, bs, lia, ref, f_multiplier, psb, psa,
                   is_lia_ext_ref, engineFrame>>

bs_on ==
    /\ IF module_state = "locked"
       THEN /\ UNCHANGED <<bs, is_fs, magnet>>
            /\ Observe("bs_on", 0, <<>>, <<>>)
       ELSE LET b == BsAccepted(bs.start, bs.step, bs.stop, bs.frequency,
                                fs.mw_power, 0)
            IN  /\ bs' = b
                /\ magnet' = magnet_set_central_field(magnet, b.start)
                /\ is_fs' = FALSE
                /\ Observe("bs_on", 0, BsCalls(0),
                           <<"sigParameterUpdated", "sigStatusUpdated">>)
    /\ UNCHANGED <<n_sweep, n_accumulation, fs, lia, ref, f_multiplier, psb, psa,
                   is_lia_ext_ref, engineFrame>>

set_eproc_scan_parameters(n_sw, n_acc, is_int) ==
    /\ IF module_state # "locked" /\ is_int
       THEN /\ n_sweep' = n_sw
            /\ n_accumulation' = n_acc
       ELSE UNCHANGED <<n_sweep, n_accumulation>>
    /\ Observe("set_eproc_scan_parameters", 0, <<>>, <<"sigParameterUpdated">>)
    /\ UNCHANGED <<is_fs, fs, bs, lia, ref, f_multiplier, psb, psa, is_lia_ext_ref,
                   magnet, engineFrame>>

(***************************************************************************)
(* Spec: runs of the engine, for every stored configuration and every      *)
(* signal of valid readings                                                *)
(***************************************************************************)
Next ==
    \/ start_eproc
    \/ stop_eproc
    \/ stop_eproc_next_sweep
    \/ _next_data_point

Spec == Init /\ [][Next]_vars

\* FairSpec: the event loop delivers the queued sigNextDataPoint; the tick
\* that finds the stop flag set is not postponed for ever
TickAfterStop == StopBranch /\ _next_data_point

FairSpec == Init /\ [][Next]_vars /\ WF_vars(TickAfterStop)

(***************************************************************************)
(* ConfigSpec: runs interleaved with changes of the sweep range, the axis  *)
(* and the scan parameters; the smallest and the largest inputs            *)
(***************************************************************************)
SetSweepRange ==
    \/ \E k \in {0, MaxPoints - 1} :
          set_fs_parameters(fs_start_default, fs_step_default,
                            fs_start_default + k * fs_step_default,
                            fs_field_default, mw_power_default, 0, TRUE)
    \/ \E k \in {0, MaxPoints - 1} :
          set_bs_parameters(bs_start_default, bs_step_default,
                            bs_start_default + k * bs_step_default,
                            bs_frequency_default, mw_power_default, 0, TRUE)

SetScan ==
    \E n_sw \in {1, MaxSweep}, n_acc \in {1, MaxAcc} :
        set_eproc_scan_parameters(n_sw, n_acc, TRUE)

ConfigInit == InitWith({<<GoodA, GoodB>>}, {1}, {1}, {1})

ConfigNext ==
    \/ start_eproc
    \/ stop_eproc
    \/ _next_data_point
    \/ SetSweepRange
    \/ SetScan
    \/ fs_on
    \/ bs_on

ConfigSpec == ConfigInit /\ [][ConfigNext]_vars

(***************************************************************************)
(* Lock-in, reference, multiplier and power-supply setters                 *)
(***************************************************************************)
LiaCalls ==
    <<"lia.set_input_range", "lia.set_amplitude", "lia.set_coupling_type",
      "lia.set_frequency", "lia.set_time_constants", "lia.set_phases",
      "lia.set_harmonic", "lia.set_rolloff", "lia.set_input_config">>

\* v: the twelve arguments as a record; numeric: the isinstance checks pass
set_lia_parameters(v, numeric) ==
    /\ IF module_state # "locked"
       THEN IF numeric /\ v.waiting_time_factor > 0
            THEN /\ lia' = v
                 /\ Observe("set_lia_parameters", 0, LiaCalls, <<"sigParameterUpdated">>)
            ELSE /\ UNCHANGED lia
                 /\ Observe("set_lia_parameters", 0, <<>>, <<"sigParameterUpdated">>)
       ELSE /\ UNCHANGED lia
            /\ Observe("set_lia_parameters", 0, <<>>, <<"sigParameterUpdated">>)
    /\ UNCHANGED <<n_sweep, n_accumulation, is_fs, fs, bs, ref, f_multiplier, psb,
                   psa, is_lia_ext_ref, magnet, engineFrame>>

\* MicrowaveDummy.set_reference(shape, freq, mode, dev), called as
\* set_reference(freq, dev, mode): the first three values come back as given
mw_set_reference(freq, dev, mode) == [freq |-> freq, dev |-> dev, mode |-> mode]

set_ref_parameters(freq, dev, mode, numeric) ==
    /\ IF module_state # "locked" /\ numeric
       THEN /\ ref' = mw_set_reference(freq, dev, mode)
            /\ Observe("set_ref_parameters", 0, <<"mw.set_reference">>,
                       <<"sigParameterUpdated">>)
       ELSE /\ UNCHANGED ref
            /\ Observe("set_ref_parameters", 0, <<>>, <<"sigParameterUpdated">>)
    /\ UNCHANGED <<n_sweep, n_accumulation, is_fs, fs, bs, lia, f_multiplier, psb,
                   psa, is_lia_ext_ref, magnet, engineFrame>>

\* error_code: what LockinInterface.change_reference('ext') reports
lia_ext_ref_on(error_code) ==
    /\ IF module_state = "locked"
       THEN /\ UNCHANGED <<ref, is_lia_ext_ref>>
            /\ Observe("lia_ext_ref_on", 0, <<>>, <<>>)
       ELSE IF error_code = 0
       THEN /\ UNCHANGED <<ref, is_lia_ext_ref>>
            /\ Observe("lia_ext_ref_on", 0, <<"lia.change_reference">>,
                       <<"sigStatusUpdated">>)
       ELSE /\ ref' = mw_set_reference(ref.freq, ref.dev, ref.mode)
            /\ is_lia_ext_ref' = TRUE
            /\ Observe("lia_ext_ref_on", 0,
                       <<"lia.change_reference", "mw.set_reference">>,
                       <<"sigParameterUpdated", "sigStatusUpdated">>)
    /\ UNCHANGED <<n_sweep, n_accumulation, is_fs, fs, bs, lia, f_multiplier, psb,
                   psa, magnet, engineFrame>>

\* error_code: what LockinInterface.change_reference('int') reports
lia_ext_ref_off(error_code) ==
    /\ IF module_state = "locked"
       THEN /\ UNCHANGED is_lia_ext_ref
            /\ Observe("lia_ext_ref_off", 0, <<>>, <<>>)
       ELSE /\ is_lia_ext_ref' = IF error_code = 1 THEN is_lia_ext_ref ELSE FALSE
            /\ Observe("lia_ext_ref_off", 0, <<"lia.change_reference">>,
                       <<"sigStatusUpdated">>)
    /\ UNCHANGED <<n_sweep, n_accumulation, is_fs, fs, bs, lia, ref, f_multiplier,
                   psb, psa, magnet, engineFrame>>

\* the lock check of set_frequency_multiplier
MultiplierAcceptedAlways == TRUE

MultiplierAccepted == module_state # "locked"

set_frequency_multiplier(multiplier) ==
    /\ f_multiplier' = IF MultiplierAccepted THEN multiplier ELSE f_multiplier
    /\ Observe("set_frequency_multiplier", 0, <<>>, <<"sigParameterUpdated">>)
    /\ UNCHANGED <<n_sweep, n_accumulation, is_fs, fs, bs, lia, ref, psb, psa,
                   is_lia_ext_ref, magnet, engineFrame>>

PsCalls(name) ==
    <<name \o ".set_control_value", name \o ".set_current_max",
      name \o ".set_control_value", name \o ".set_current_max">>

PsAccepted(v1, v2, maxi1, maxi2, numeric) ==
    numeric /\ ~(v1 < 0) /\ ~(v2 < 0) /\ ~(maxi1 < 0) /\ ~(maxi2 < 0)

PsValues(v1, v2, maxi1, maxi2) ==
    [voltage_outp1 |-> v1, voltage_outp2 |-> v2,
     current_max_outp1 |-> maxi1, current_max_outp2 |-> maxi2]

set_psb_parameters(v1, v2, maxi1, maxi2, numeric) ==
    /\ IF module_state # "locked" /\ PsAccepted(v1, v2, maxi1, maxi2, numeric)
       THEN /\ psb' = PsValues(v1, v2, maxi1, maxi2)
            /\ Observe("set_psb_parameters", 0, PsCalls("psb"), <<"sigParameterUpdated">>)
       ELSE /\ UNCHANGED psb
            /\ Observe("set_psb_parameters", 0, <<>>, <<"sigParameterUpdated">>)
    /\ UNCHANGED <<n_sweep, n_accumulation, is_fs, fs, bs, lia, ref, f_multiplier,
                   psa, is_lia_ext_ref, magnet, engineFrame>>

set_psa_parameters(v1, v2, maxi1, maxi2, numeric) ==
    /\ IF module_state # "locked" /\ PsAccepted(v1, v2, maxi1, maxi2, numeric)
       THEN /\ psa' = PsValues(v1, v2, maxi1, maxi2)
            /\ Observe("set_psa_parameters", 0, PsCalls("psa"), <<"sigParameterUpdated">>)
       ELSE /\ UNCHANGED psa
            /\ Observe("set_psa_parameters", 0, <<>>, <<"sigParameterUpdated">>)
    /\ UNCHANGED <<n_sweep, n_accumulation, is_fs, fs, bs, lia, ref, f_multiplier,
                   psb, is_lia_ext_ref, magnet, engineFrame>>

(***************************************************************************)
(* ParamSpec: every parameter setter interleaved with short runs           *)
(***************************************************************************)
LiaAlt == [LiaDefault EXCEPT !.tauA = 2000, !.waiting_time_factor = 2,
                             !.range = "1", !.phaseA = 90]

ParamInit == InitWith({<<GoodA>>}, {1}, {1}, {1})

ParamNext ==
    \/ start_eproc
    \/ stop_eproc
    \/ _next_data_point
    \/ \E numeric \in BOOLEAN :
          set_fs_parameters(fs_start_default, fs_step_default, fs_start_default,
                            fs_field_default, mw_power_default, 0, numeric)
    \/ \E numeric \in BOOLEAN :
          set_bs_parameters(bs_start_default, bs_step_default, bs_start_default,
                            bs_frequency_default, mw_power_default, 0, numeric)
    \/ fs_on
    \/ bs_on
    \/ \E is_int \in BOOLEAN : set_eproc_scan_parameters(1, 2, is_int)
    \/ \E numeric \in BOOLEAN : set_lia_parameters(LiaAlt, numeric)
    \/ \E error_code \in {0, 1} : lia_ext_ref_on(error_code)
    \/ \E error_code \in {0, 1} : lia_ext_ref_off(error_code)
    \/ set_ref_parameters(2000000, 500, "LNO", TRUE)
    \/ set_frequency_multiplier(64)
    \/ \E v1 \in {-1, 2} : set_psb_parameters(v1, 2, 1, 1, TRUE)
    \/ \E v1 \in {-1, 2} : set_psa_parameters(v1, 2, 1, 1, TRUE)

ParamSpec == ParamInit /\ [][ParamNext]_vars

(***************************************************************************)
(* RetrySpec: runs with a lock-in whose readings may lie below the noise   *)
(* floor                                                                   *)
(***************************************************************************)
RetryInit == InitWith(Signals(AllReadings), 1..MaxSweep, {1, MaxAcc}, {1})

RetryNext ==
    \/ start_eproc
    \/ stop_eproc
    \/ _next_data_point
    \/ reread_data_lia

RetrySpec == RetryInit /\ [][RetryNext]_vars

(***************************************************************************)
(* The sweep range: the stop rule of the setters and _check_range          *)
(***************************************************************************)
\* a normalization that lands one step past the rounded stop
CheckRangeDrifting(start, step, stop) == start + (np_rint(stop - start, step) + 1) * step

\* _check_range for one axis: the stop written as start + num_step * step
CheckRange(start, step, stop) == start + np_rint(stop - start, step) * step

\* _check_range: the frequency range first, then the field range; a step of
\* 0 ends the call with the exception of the division
_check_range ==
    /\ IF fs.step = 0
       THEN /\ UNCHANGED <<fs, bs>>
            /\ Observe("_check_range", Raised, <<>>, <<>>)
       ELSE /\ fs' = [fs EXCEPT !.stop = CheckRange(fs.start, fs.step, fs.stop)]
            /\ IF bs.step = 0
               THEN /\ UNCHANGED bs
                    /\ Observe("_check_range", Raised, <<>>, <<>>)
               ELSE /\ bs' = [bs EXCEPT !.stop = CheckRange(bs.start, bs.step, bs.stop)]
                    /\ Observe("_check_range", 0, <<>>, <<>>)
    /\ UNCHANGED <<n_sweep, n_accumulation, is_fs, lia, ref, f_multiplier, psb, psa,
                   is_lia_ext_ref, magnet, engineFrame>>

\* steps and stops asked of the setters, in units of the default step:
\* negative, zero and positive step; stop below, at and above start, on and
\* off the grid
NormSteps == {-1, 0, 1}
NormStops == {-3, 0, 1, 3, 4}

SetNormRange ==
    \/ \E k \in NormSteps, h \in NormStops :
          set_fs_parameters(fs_start_default, k * fs_step_default,
                            fs_start_default + h * (fs_step_default \div 2),
                            fs_field_default, mw_power_default, 0, TRUE)
    \/ \E k \in NormSteps, h \in NormStops :
          set_bs_parameters(bs_start_default, k * bs_step_default,
                            bs_start_default + h * (bs_step_default \div 2),
                            bs_frequency_default, mw_power_default, 0, TRUE)

NormNext ==
    \/ SetNormRange
    \/ _check_range

NormSpec == ParamInit /\ [][NormNext]_vars

(***************************************************************************)
(* GridSpec: runs over ranges whose stop is on or off the grid of the step *)
(***************************************************************************)
\* requested stop - start in half steps
GridStops == 1..(2 * (MaxPoints - 1))

SetGridRange ==
    \/ \E h \in GridStops :
          set_fs_parameters(fs_start_default, fs_step_default,
                            fs_start_default + h * (fs_step_default \div 2),
                            fs_field_default, mw_power_default, 0, TRUE)
    \/ \E h \in GridStops :
          set_bs_parameters(bs_start_default, bs_step_default,
                            bs_start_default + h * (bs_step_default \div 2),
                            bs_frequency_default, mw_power_default, 0, TRUE)

GridNext ==
    \/ start_eproc
    \/ stop_eproc
    \/ _next_data_point
    \/ SetGridRange

GridSpec == ParamInit /\ [][GridNext]_vars

(***************************************************************************)
(* Output switches: microwave, modulation and power supplies               *)
(***************************************************************************)
\* an operation that stores nothing but what the microwave reports back
Switch(op, calls, sigs) ==
    /\ Observe(op, 0, calls, sigs)
    /\ UNCHANGED <<n_sweep, n_accumulation, is_fs, fs, lia, ref, f_multiplier, psb,
                   psa, is_lia_ext_ref, magnet, engineFrame>>

\* mw_on: no check of the module state
mw_on ==
    /\ LET c == mw_set_cw(bs.frequency, bs.mw_power)
       IN  bs' = [bs EXCEPT !.frequency = c[1], !.mw_power = c[2]]
    /\ Switch("mw_on", <<"mw.set_cw", "mw.cw_on", "mw.get_status">>,
              <<"sigParameterUpdated">>)

mw_off ==
    /\ UNCHANGED bs
    /\ Switch("mw_off", <<"mw.off", "mw.get_status">>, <<>>)

modulation_on ==
    /\ UNCHANGED bs
    /\ Switch("modulation_on", <<"mw.fm_on", "mw.lf_on">>, <<>>)

modulation_off ==
    /\ UNCHANGED bs
    /\ Switch("modulation_off", <<"mw.fm_off", "mw.lf_off">>, <<>>)

\* psb_on, psb_off, psa_on, psa_off: refused while the module is locked
PsSwitch(op, call) ==
    /\ UNCHANGED bs
    /\ Switch(op, IF module_state # "locked" THEN <<call>> ELSE <<>>, <<>>)

psb_on == PsSwitch("psb_on", "psb.output_on")
psb_off == PsSwitch("psb_off", "psb.output_off")
psa_on == PsSwitch("psa_on", "psa.output_on")
psa_off == PsSwitch("psa_off", "psa.output_off")

OwnerNext ==
    \/ start_eproc
    \/ stop_eproc
    \/ _next_data_point
    \/ mw_on
    \/ mw_off
    \/ modulation_on
    \/ modulation_off
    \/ psb_on
    \/ psb_off
    \/ psa_on
    \/ psa_off

OwnerSpec == ParamInit /\ [][OwnerNext]_vars

(***************************************************************************)
(* RaceSpec: set_eproc_scan_parameters called from another thread. It      *)
(* takes no threadlock, so start_eproc can run between its module_state    *)
(* check and its assignments                                               *)
(***************************************************************************)
\* line 402: the check of module_state
scan_check(n_sw, n_acc) ==
    /\ scan_call = <<>>
    /\ IF module_state # "locked"
       THEN /\ scan_call' = <<n_sw, n_acc>>
            /\ UNCHANGED <<paramVars, engineVars, tick_pc, chan_i, retries, hwVars,
                           obsVars, otherVars>>
       ELSE set_eproc_scan_parameters(n_sw, n_acc, TRUE)

\* lines 404-413: the assignments and the notification
scan_assign ==
    /\ scan_call # <<>>
    /\ n_sweep' = scan_call[1]
    /\ n_accumulation' = scan_call[2]
    /\ scan_call' = <<>>
    /\ Observe("set_eproc_scan_parameters", 0, <<>>, <<"sigParameterUpdated">>)
    /\ UNCHANGED <<is_fs, fs, bs, lia, ref, f_multiplier, psb, psa, is_lia_ext_ref,
                   engineVars, tick_pc, chan_i, retries, hwVars, pending, written,
                   requests, remaining_time, otherVars>>

RaceInit == InitWith({<<GoodA, GoodB>>}, {1}, {1}, {1})

RaceNext ==
    \/ start_eproc
    \/ stop_eproc
    \/ _next_data_point
    \/ \E n_sw \in 1..MaxSweep, n_acc \in 1..MaxAcc : scan_check(n_sw, n_acc)
    \/ scan_assign

RaceSpec == RaceInit /\ [][RaceNext]_vars

(***************************************************************************)
(* The engine of src/logic/eproc_logic.py (class EPRoCLogic of that file). *)
(* Fields of the same name are kept in the same variables; the fields      *)
(* named below are kept in n_sweep, n_accumulation, elapsed_x and is_fs,    *)
(* its ms_* (microwave sweep) in fs and its fs_* (field sweep) in bs. Its  *)
(* cube is indexed [sweep, accumulation, point, channel]                   *)
(***************************************************************************)
number_of_sweeps == n_sweep
number_of_accumulations == n_accumulation
actual_index == elapsed_x
is_microwave_sweep == is_fs

\* set_ms_parameters as start_eproc calls it (module not locked, numbers)
LegacyMs(f) ==
    LET start == frequency_in_range(f.start)
        c == mw_set_cw(start, f.mw_power)
        stop == IF f.stop <= start THEN start + f.step ELSE f.stop
    IN  [f EXCEPT !.start = c[1], !.mw_power = c[2],
                  !.step = sweep_step_in_range(f.step),
                  !.stop = frequency_in_range(stop)]

\* set_fs_parameters (field sweep) as start_eproc calls it
LegacyFs(b) ==
    LET stop == IF b.stop <= b.start THEN b.start + b.step ELSE b.stop
        c == mw_set_cw(frequency_in_range(b.frequency), power_in_range(b.mw_power))
    IN  [b EXCEPT !.stop = stop, !.frequency = c[1], !.mw_power = c[2]]

\* check_ranges, then the setter of the active axis
LegacyStartedMs ==
    LET f == [fs EXCEPT !.stop = CheckRange(fs.start, fs.step, fs.stop)]
    IN  IF is_microwave_sweep THEN LegacyMs(f) ELSE f

LegacyStartedFs ==
    LET b == [bs EXCEPT !.stop = CheckRange(bs.start, bs.step, bs.stop)]
    IN  IF is_microwave_sweep THEN b ELSE LegacyFs(b)

legacy_start_eproc ==
    /\ tick_pc = "idle"
    /\ IF module_state = "locked"
       THEN /\ Observe("start_eproc", -1, <<>>, <<>>)
            /\ UNCHANGED <<paramVars, engineVars, tickVars, otherVars, hwVars, pending,
                           written, requests, remaining_time>>
       ELSE LET x == PlotX(is_microwave_sweep, LegacyStartedMs, LegacyStartedFs)
                wait == Max(lia.tauA, lia.tauB) * lia.waiting_time_factor
            IN  /\ fs' = LegacyStartedMs
                /\ bs' = LegacyStartedFs
                /\ magnet' = IF is_microwave_sweep
                             THEN magnet_set_central_field(magnet, fs.field)
                             ELSE magnet_set_central_field(magnet, bs.start)
                /\ lia_waiting_time' = wait
                /\ elapsed_sweeps' = 0
                /\ elapsed_accumulations' = 0
                /\ actual_index' = 0
                /\ remaining_time' = Rat(wait * number_of_accumulations * pointCount
                                           * number_of_sweeps, 1)
                /\ eproc_plot_x' = x
                /\ eproc_plot_y' = PlotY(x)
                /\ eproc_raw_data' = np_zeros(<<number_of_sweeps, number_of_accumulations,
                                                Len(x), NumChannels>>)
                /\ module_state' = "locked"
                /\ stopRequested' = FALSE
                /\ stopNextSweepRequested' = FALSE
                /\ pending' = pending + 1
                /\ written' = <<>>
                /\ requests' = {}
                /\ Observe("start_eproc", 0,
                           IF is_microwave_sweep
                           THEN <<"mw.set_cw", "magnet.set_central_field">>
                           ELSE <<"magnet.set_central_field", "mw.set_cw">>,
                           <<"sigParameterUpdated", "sigEprocPlotsUpdated",
                             "sigSetLabelEprocPlots", "sigEprocRemainingTimeUpdated",
                             "sigNextMeasure">>)
                /\ UNCHANGED <<n_sweep, n_accumulation, is_fs, lia, ref, f_multiplier,
                               psb, psa, is_lia_ext_ref, is_eproc_running, tickVars,
                               otherVars, lia_signal, lia_reads>>

\* stop_eproc and stop_eproc_next_sweep of that file are those of eproc/
legacy_stop_eproc == stop_eproc

legacy_stop_eproc_next_sweep == stop_eproc_next_sweep

LegacyCell == <<elapsed_sweeps, elapsed_accumulations, actual_index>>

LegacyStore(raw, reading) == [raw EXCEPT !.data[LegacyCell] = reading]

\* the test of the while loop of _next_measure: the value, not its magnitude
LegacyInvalid(v) == v < NoiseFloor

LegacyFirstInvalid(sample, from) ==
    LET S == {i \in from..NumChannels : LegacyInvalid(sample[i])}
    IN  IF S = {} THEN 0 ELSE CHOOSE i \in S : \A j \in S : i <= j

\* np.mean(raw[sweep, :, index, :], axis=0)
LegacyMean(raw, sweep, index) ==
    LET S == {cell \in Cells(raw.shape) : cell[1] = sweep /\ cell[3] = index}
    IN  [c \in 1..NumChannels |-> Rat(SumOver(raw.data, S, c), Cardinality(S))]

IncrementalReplacing(y, sweeps, new_value) == new_value

\* (y * elapsed_sweeps + new_value) / (elapsed_sweeps + 1)
Incremental(y, sweeps, new_value) ==
    [c \in 1..NumChannels |->
        Rat(y[c].num * sweeps * new_value[c].den + new_value[c].num * y[c].den,
            y[c].den * new_value[c].den * (sweeps + 1))]

\* the while loop of _next_measure goes round again
LegacyRetry(raw, j, n, calls) ==
    /\ eproc_raw_data' = raw
    /\ tick_pc' = "retry"
    /\ chan_i' = j
    /\ retries' = n
    /\ Observe("_next_measure", 0, calls, <<>>)
    /\ UNCHANGED <<paramVars, module_state, is_eproc_running, stopRequested,
                   stopNextSweepRequested, elapsed_sweeps, elapsed_accumulations,
                   elapsed_x, eproc_plot_x, eproc_plot_y, lia_waiting_time, magnet,
                   lia_signal, written, requests, remaining_time, scan_call,
                   otherVars>>

\* the rest of _next_measure once the sample in the cell has passed the loop
LegacyFinish(raw, calls) ==
    LET acc == elapsed_accumulations + 1
        done == acc = number_of_accumulations
        last == actual_index = pointCount - 1
        step == IF is_microwave_sweep THEN fs.step ELSE bs.step
        move == IF is_microwave_sweep THEN "mw.set_cw" ELSE "magnet.set_central_field"
        field == IF last THEN bs.start ELSE magnet.field + step
    IN  /\ eproc_raw_data' = raw
        /\ remaining_time' =
               Rat(lia_waiting_time
                     * (number_of_accumulations * pointCount * number_of_sweeps
                          - (acc + number_of_accumulations * actual_index
                               + number_of_accumulations * pointCount * elapsed_sweeps)), 1)
        /\ elapsed_accumulations' = IF done THEN 0 ELSE acc
        /\ eproc_plot_y' =
               IF done
               THEN [eproc_plot_y EXCEPT ![actual_index + 1] =
                        Incremental(eproc_plot_y[actual_index + 1], elapsed_sweeps,
                                    LegacyMean(raw, elapsed_sweeps, actual_index))]
               ELSE eproc_plot_y
        /\ actual_index' = IF ~done THEN actual_index
                           ELSE IF last THEN 0 ELSE actual_index + 1
        /\ elapsed_sweeps' = IF done /\ last THEN elapsed_sweeps + 1 ELSE elapsed_sweeps
        /\ stopRequested' =
               (stopRequested
                  \/ (done /\ last /\ (elapsed_sweeps + 1 = number_of_sweeps
                                          \/ stopNextSweepRequested)))
        /\ magnet' = IF done /\ ~is_microwave_sweep
                     THEN magnet_set_central_field(magnet, field)
                     ELSE magnet
        /\ written' = Append(written, <<LegacyCell, raw.data[LegacyCell]>>)
        /\ tick_pc' = "idle"
        /\ chan_i' = 0
        /\ retries' = 0
        /\ Observe("_next_measure", 0, calls \o (IF done THEN <<move>> ELSE <<>>),
                   <<"sigEprocPlotsUpdated", "sigEprocRemainingTimeUpdated",
                     "sigNextMeasure">>)
        /\ UNCHANGED <<paramVars, module_state, is_eproc_running,
                       stopNextSweepRequested, eproc_plot_x, lia_waiting_time,
                       lia_signal, requests, scan_call, otherVars>>

\* _next_measure, queued by sigNextMeasure
legacy_next_measure ==
    /\ pending > 0
    /\ tick_pc = "idle"
    /\ IF module_state # "locked"
       THEN /\ pending' = pending - 1
            /\ Observe("_next_measure", 0, <<>>, <<>>)
            /\ UNCHANGED <<paramVars, engineVars, tickVars, otherVars, hwVars, written,
                           requests, remaining_time>>
       ELSE IF stopRequested
       THEN /\ pending' = pending - 1
            /\ stopRequested' = FALSE
            /\ module_state' = "idle"
            /\ Observe("_next_measure", 0, <<>>, <<>>)
            /\ UNCHANGED <<paramVars, is_eproc_running, stopNextSweepRequested,
                           elapsed_sweeps, elapsed_accumulations, elapsed_x,
                           eproc_plot_x, eproc_plot_y, eproc_raw_data,
                           lia_waiting_time, tickVars, otherVars, hwVars, written,
                           requests, remaining_time>>
       ELSE LET raw == LegacyStore(eproc_raw_data, NextReading)
                j == LegacyFirstInvalid(raw.data[LegacyCell], 1)
            IN  /\ lia_reads' = (lia_reads + 1) % Len(lia_signal)
                /\ IF j = 0
                   THEN /\ pending' = pending
                        /\ LegacyFinish(raw, <<"sleep", "lia.get_data_lia">>)
                   ELSE /\ pending' = pending - 1
                        /\ LegacyRetry(raw, j, 0, <<"sleep", "lia.get_data_lia">>)

\* one pass of the while loop of _next_measure
legacy_reread ==
    /\ tick_pc = "retry"
    /\ LET raw == LegacyStore(eproc_raw_data, NextReading)
           j == LegacyFirstInvalid(raw.data[LegacyCell], chan_i)
           n == IF retries < RetryCap THEN retries + 1 ELSE retries
       IN  /\ lia_reads' = (lia_reads + 1) % Len(lia_signal)
           /\ IF j = 0
              THEN /\ pending' = pending + 1
                   /\ LegacyFinish(raw, <<"sleep", "lia.get_data_lia">>)
              ELSE /\ pending' = pending
                   /\ LegacyRetry(raw, j, n, <<"sleep", "lia.get_data_lia">>)

LegacyReadings == {PosA, PosB, BadC3, GoodA}

\* signals of period 1, 2 and 3, so that the sweeps of a run differ
LegacySignals == Signals(LegacyReadings) \cup {<<PosA, PosB, PosB>>}

LegacyInit == InitWith(LegacySignals, 1..MaxSweep, {1, MaxAcc}, {MaxPoints - 1})

LegacyNext ==
    \/ legacy_start_eproc
    \/ legacy_stop_eproc
    \/ legacy_stop_eproc_next_sweep
    \/ legacy_next_measure
    \/ legacy_reread

LegacySpec == LegacyInit /\ [][LegacyNext]_vars

(***************************************************************************)
(* The engine of src/logic/eproc/magnet_mapping_logic.py. It has the       *)
(* fields and the cube layout of src/logic/eproc_logic.py (is_ms for       *)
(* is_microwave_sweep) and never locks the module: module_state.lock() and *)
(* unlock() are commented out                                              *)
(***************************************************************************)
is_ms == is_fs

\* np.mean(raw[:hi, :, index, :], axis=(0, 1))
MapMean(raw, hi, index) ==
    LET S == {cell \in Cells(raw.shape) :
                 cell[1] < Min(hi, raw.shape[1]) /\ cell[3] = index}
    IN  [c \in 1..NumChannels |-> Rat(SumOver(raw.data, S, c), Cardinality(S))]

\* start_eproc with `sp` queued sigStartNextEproc left; `sx` lists the
\* positions of the spectra started for sigStartNextEproc
MapStart(sp, sx) ==
    /\ tick_pc = "idle"
    /\ start_pending' = sp
    /\ IF module_state = "locked"
       THEN /\ Observe("start_eproc", -1, <<>>, <<>>)
            /\ UNCHANGED <<paramVars, engineVars, tickVars, sweepVars, hwVars, pending,
                           written, requests, remaining_time,
                           is_eproc_mapping_running, motors, actual,
                           position_pending, spectra>>
       ELSE LET x == PlotX(is_ms, LegacyStartedMs, LegacyStartedFs)
                wait == Max(lia.tauA, lia.tauB) * lia.waiting_time_factor
            IN  /\ fs' = LegacyStartedMs
                /\ bs' = LegacyStartedFs
                /\ magnet' = IF is_ms
                             THEN magnet_set_central_field(magnet, fs.field)
                             ELSE magnet_set_central_field(magnet, bs.start)
                /\ lia_waiting_time' = wait
                /\ elapsed_sweeps' = 0
                /\ elapsed_accumulations' = 0
                /\ actual_index' = 0
                /\ remaining_time' = Rat(wait * number_of_accumulations * pointCount
                                           * number_of_sweeps, 1)
                /\ eproc_plot_x' = x
                /\ eproc_plot_y' = PlotY(x)
                /\ eproc_raw_data' = np_zeros(<<number_of_sweeps, number_of_accumulations,
                                                Len(x), NumChannels>>)
                /\ stopRequested' = FALSE
                /\ stopNextSweepRequested' = FALSE
                /\ is_eproc_running' = TRUE
                /\ pending' = pending + 1
                /\ written' = <<>>
                /\ requests' = {}
                /\ spectra' = sx
                /\ Observe("start_eproc", 0,
                           IF is_ms
                           THEN <<"mw.set_cw", "magnet.set_central_field">>
                           ELSE <<"magnet.set_central_field", "mw.set_cw">>,
                           <<"sigParameterUpdated", "sigEprocPlotsUpdated",
                             "sigSetLabelEprocPlots", "sigEprocRemainingTimeUpdated",
                             "sigStatusUpdated", "sigNextMeasure">>)
                /\ UNCHANGED <<n_sweep, n_accumulation, is_fs, lia, ref, f_multiplier,
                               psb, psa, is_lia_ext_ref, module_state, tickVars,
                               sweepVars, lia_signal, lia_reads,
                               is_eproc_mapping_running, motors, actual,
                               position_pending>>

\* start_eproc called by a user
map_start_eproc ==
    /\ pending < MaxQueue
    /\ MapStart(start_pending, spectra)

\* start_eproc as the slot of sigStartNextEproc
map_start_eproc_queued ==
    /\ start_pending > 0
    /\ MapStart(start_pending - 1, Append(spectra, actual))

\* stop_eproc: the flag is set whatever the state
map_stop_eproc ==
    /\ tick_pc = "idle"
    /\ stopRequested' = TRUE
    /\ requests' = requests \cup {"stop_eproc"}
    /\ Observe("stop_eproc", 0, <<>>, <<>>)
    /\ UNCHANGED <<paramVars, module_state, is_eproc_running, stopNextSweepRequested,
                   elapsed_sweeps, elapsed_accumulations, elapsed_x, eproc_plot_x,
                   eproc_plot_y, eproc_raw_data, lia_waiting_time, tickVars, otherVars,
                   hwVars, pending, written, remaining_time>>

map_stop_eproc_next_sweep ==
    /\ tick_pc = "idle"
    /\ stopNextSweepRequested' = TRUE
    /\ requests' = requests \cup {"stop_eproc_next_sweep"}
    /\ Observe("stop_eproc_next_sweep", 0, <<>>, <<>>)
    /\ UNCHANGED <<paramVars, module_state, is_eproc_running, stopRequested,
                   elapsed_sweeps, elapsed_accumulations, elapsed_x, eproc_plot_x,
                   eproc_plot_y, eproc_raw_data, lia_waiting_time, tickVars, otherVars,
                   hwVars, pending, written, remaining_time>>

\* the while loop of _get_data_lia goes round again
MapRetry(raw, j, n, calls) ==
    /\ eproc_raw_data' = raw
    /\ tick_pc' = "retry"
    /\ chan_i' = j
    /\ retries' = n
    /\ Observe("_next_measure", 0, calls, <<>>)
    /\ UNCHANGED <<paramVars, module_state, is_eproc_running, stopRequested,
                   stopNextSweepRequested, elapsed_sweeps, elapsed_accumulations,
                   elapsed_x, eproc_plot_x, eproc_plot_y, lia_waiting_time, magnet,
                   lia_signal, written, requests, remaining_time, scan_call,
                   otherVars>>

\* _next_measure after _get_data_lia: the count, _set_new_parameters,
\* _update_remaining_time and the signals; `p` ticks are queued besides
MapFinish(raw, calls, p) ==
    LET acc == elapsed_accumulations + 1
        done == acc = number_of_accumulations
        last == actual_index = pointCount - 1
        step == IF is_ms THEN fs.step ELSE bs.step
        move == IF is_ms THEN "mw.set_cw" ELSE "magnet.set_central_field"
        field == IF last THEN bs.start ELSE magnet.field + step
        sweeps == IF done /\ last THEN elapsed_sweeps + 1 ELSE elapsed_sweeps
        index == IF ~done THEN actual_index ELSE IF last THEN 0 ELSE actual_index + 1
        ends == done /\ last /\ (sweeps = number_of_sweeps \/ stopNextSweepRequested)
        again == (is_eproc_mapping_running /\ sweeps # number_of_sweeps)
                    \/ ~is_eproc_mapping_running
    IN  /\ eproc_raw_data' = raw
        /\ elapsed_accumulations' = IF done THEN 0 ELSE acc
        /\ eproc_plot_y' =
               IF done
               THEN [eproc_plot_y EXCEPT ![actual_index + 1] =
                        MapMean(raw, elapsed_sweeps + 1, actual_index)]
               ELSE eproc_plot_y
        /\ actual_index' = index
        /\ elapsed_sweeps' = sweeps
        /\ stopRequested' = (stopRequested \/ (ends /\ ~is_eproc_mapping_running))
        /\ position_pending' = IF ends /\ is_eproc_mapping_running
                               THEN position_pending + 1 ELSE position_pending
        /\ magnet' = IF done /\ ~is_ms
                     THEN magnet_set_central_field(magnet, field)
                     ELSE magnet
        /\ remaining_time' =
               Rat(lia_waiting_time
                     * (number_of_accumulations * (pointCount - index)
                          + number_of_accumulations * pointCount
                              * (number_of_sweeps - sweeps)), 1)
        /\ pending' = IF again THEN p + 1 ELSE p
        /\ written' = Append(written, <<LegacyCell, raw.data[LegacyCell]>>)
        /\ tick_pc' = "idle"
        /\ chan_i' = 0
        /\ retries' = 0
        /\ Observe("_next_measure", 0, calls \o (IF done THEN <<move>> ELSE <<>>),
                   (IF ends /\ is_eproc_mapping_running
                    THEN <<"sigNextPosition">> ELSE <<>>)
                   \o <<"sigEprocRemainingTimeUpdated", "sigEprocPlotsUpdated">>
                   \o (IF again THEN <<"sigNextMeasure">> ELSE <<>>))
        /\ UNCHANGED <<paramVars, module_state, is_eproc_running,
                       stopNextSweepRequested, eproc_plot_x, lia_waiting_time,
                       lia_signal, requests, scan_call, sweepVars,
                       is_eproc_mapping_running, motors, actual, start_pending,
                       spectra>>

\* _next_measure, queued by sigNextMeasure; it does not look at module_state
map_next_measure ==
    /\ pending > 0
    /\ tick_pc = "idle"
    /\ IF stopRequested
       THEN /\ pending' = pending - 1
            /\ stopRequested' = FALSE
            /\ is_eproc_running' = FALSE
            /\ Observe("_next_measure", 0, <<>>, <<"sigStatusUpdated">>)
            /\ UNCHANGED <<paramVars, module_state, stopNextSweepRequested,
                           elapsed_sweeps, elapsed_accumulations, elapsed_x,
                           eproc_plot_x, eproc_plot_y, eproc_raw_data,
                           lia_waiting_time, tickVars, otherVars, hwVars, written,
                           requests, remaining_time>>
       ELSE IF LegacyCell \notin DOMAIN eproc_raw_data.data
       THEN \* IndexError in _get_data_lia: the slot ends, nothing is emitted
            /\ pending' = pending - 1
            /\ lia_reads' = (lia_reads + 1) % Len(lia_signal)
            /\ Observe("_next_measure", Raised, <<"sleep", "lia.get_data_lia">>, <<>>)
            /\ UNCHANGED <<paramVars, engineVars, tickVars, otherVars, magnet,
                           lia_signal, written, requests, remaining_time>>
       ELSE LET raw == LegacyStore(eproc_raw_data, NextReading)
                j == FirstInvalid(raw.data[LegacyCell], 1)
            IN  /\ lia_reads' = (lia_reads + 1) % Len(lia_signal)
                /\ IF j = 0
                   THEN MapFinish(raw, <<"sleep", "lia.get_data_lia">>, pending - 1)
                   ELSE /\ pending' = pending - 1
                        /\ MapRetry(raw, j, 0, <<"sleep", "lia.get_data_lia">>)

\* one pass of the while loop of _get_data_lia
map_reread ==
    /\ tick_pc = "retry"
    /\ LET raw == LegacyStore(eproc_raw_data, NextReading)
           j == FirstInvalid(raw.data[LegacyCell], chan_i)
           n == IF retries < RetryCap THEN retries + 1 ELSE retries
       IN  /\ lia_reads' = (lia_reads + 1) % Len(lia_signal)
           /\ IF j = 0
              THEN MapFinish(raw, <<"sleep", "lia.get_data_lia">>, pending)
              ELSE /\ pending' = pending
                   /\ MapRetry(raw, j, n, <<"sleep", "lia.get_data_lia">>)

\* check_ranges_motors for one motor: the stop as start + n_step * step
CheckMotor(a) ==
    IF a.start # a.stop
    THEN [a EXCEPT !.stop = a.start + np_rint(a.stop - a.start, a.step) * a.step]
    ELSE [a EXCEPT !.stop = a.start]

\* start_eproc_mapping, called while nothing runs and nothing is queued
start_eproc_mapping ==
    /\ tick_pc = "idle"
    /\ ~is_eproc_running /\ ~is_eproc_mapping_running
    /\ pending = 0 /\ start_pending = 0 /\ position_pending = 0
    /\ IF module_state = "locked"
       THEN /\ Observe("start_eproc_mapping", -1, <<>>, <<>>)
            /\ UNCHANGED <<paramVars, engineVars, tickVars, otherVars, hwVars, pending,
                           written, requests, remaining_time>>
       ELSE LET m == [x |-> CheckMotor(motors.x), y |-> CheckMotor(motors.y),
                      z |-> CheckMotor(motors.z)]
            IN  /\ motors' = m
                /\ actual' = [x |-> m.x.start, y |-> m.y.start, z |-> m.z.start]
                /\ stopRequested' = FALSE
                /\ stopNextSweepRequested' = FALSE
                /\ is_eproc_mapping_running' = TRUE
                /\ start_pending' = start_pending + 1
                /\ spectra' = <<>>
                /\ Observe("start_eproc_mapping", 0,
                           <<"x_motor.move", "y_motor.move", "z_motor.move">>,
                           <<"sigParameterUpdated", "sigStartNextEproc">>)
                /\ UNCHANGED <<paramVars, module_state, is_eproc_running, elapsed_sweeps,
                               elapsed_accumulations, elapsed_x, eproc_plot_x,
                               eproc_plot_y, eproc_raw_data, lia_waiting_time,
                               tickVars, sweepVars, hwVars, pending, written, requests,
                               remaining_time, position_pending>>

\* _next_position, queued by sigNextPosition
_next_position ==
    /\ position_pending > 0
    /\ tick_pc = "idle"
    /\ position_pending' = position_pending - 1
    /\ LET x_last == actual.x = motors.x.stop
           y_last == actual.y = motors.y.stop
           z_last == actual.z = motors.z.stop
       IN  /\ actual' =
                  [x |-> IF x_last THEN motors.x.start ELSE actual.x + motors.x.step,
                   y |-> IF ~x_last THEN actual.y
                         ELSE IF y_last THEN motors.y.start
                         ELSE actual.y + motors.y.step,
                   z |-> IF ~(x_last /\ y_last) THEN actual.z
                         ELSE IF z_last THEN motors.z.start
                         ELSE actual.z + motors.z.step]
           /\ stopRequested' = (stopRequested \/ (x_last /\ y_last /\ z_last))
           /\ is_eproc_mapping_running' =
                  (is_eproc_mapping_running /\ ~(x_last /\ y_last /\ z_last))
    /\ start_pending' = start_pending + 1
    /\ Observe("_next_position", 0,
               <<"save_eproc_data_mapping", "x_motor.move", "y_motor.move",
                 "z_motor.move">>,
               <<"sigParameterUpdated", "sigStartNextEproc">>)
    /\ UNCHANGED <<paramVars, module_state, is_eproc_running, stopNextSweepRequested,
                   elapsed_sweeps, elapsed_accumulations, elapsed_x, eproc_plot_x,
                   eproc_plot_y, eproc_raw_data, lia_waiting_time, tickVars, sweepVars,
                   hwVars, pending, written, requests, remaining_time, motors, spectra>>

\* MapSpec: single scans of magnet_mapping_logic.py
MapInit == InitWith({<<GoodA, GoodB>>, <<GoodA, BadC3>>}, 1..MaxSweep, {1, MaxAcc}, {1})

MapNext ==
    \/ map_start_eproc
    \/ map_stop_eproc
    \/ map_stop_eproc_next_sweep
    \/ map_next_measure
    \/ map_reread

MapSpec == MapInit /\ [][MapNext]_vars

\* StageSpec: mapping runs over grids of up to MaxGrid steps on each axis
GridAxes == {Axis(0, 0, 0), Axis(0, 1, MaxGrid)}

StageInit ==
    /\ \E ax \in GridAxes, ay \in GridAxes, az \in GridAxes :
          MapIdle([x |-> ax, y |-> ay, z |-> az])
    /\ SweepLists(1)
    /\ EngineInit({<<GoodA, GoodB>>, <<GoodA, BadC3>>}, {1, MaxSweep}, {1}, {1})

StageNext ==
    \/ start_eproc_mapping
    \/ map_start_eproc_queued
    \/ map_next_measure
    \/ map_reread
    \/ _next_position

StageSpec == StageInit /\ [][StageNext]_vars

(***************************************************************************)
(* The engine of src/logic/eproc_mwsweep_logic.py: the microwave source    *)
(* sweeps one range (scanmode SWEEP, ranges = 1) on a trigger per point.   *)
(* The cube is indexed [sweep, accumulation, point] and the series is kept *)
(* by the incremental average, as in src/logic/eproc_logic.py              *)
(***************************************************************************)
ListsSet == Len(mw_starts) > 0 /\ Len(mw_stops) > 0 /\ Len(mw_steps) > 0

\* the sleeps of one point: waiting_time once and waiting_time/20 for each
\* accumulation
PointTime(w) == Rat(w * (20 + number_of_accumulations), 20)

\* set_sweep_parameters with one range start, start + k * step and a power
set_sweep_parameters(k, power) ==
    LET start == fs_start_default
        step == fs_step_default
        stop == IF start + k * step <= start THEN start + step ELSE start + k * step
    IN  /\ tick_pc = "idle"
        /\ IF module_state # "locked"
           THEN /\ mw_starts' = <<frequency_in_range(start)>>
                /\ mw_stops' = <<frequency_in_range(stop)>>
                /\ mw_steps' = <<sweep_step_in_range(step)>>
                /\ sweep_mw_power' = power_in_range(power)
           ELSE /\ mw_starts' = <<>>
                /\ mw_stops' = <<>>
                /\ mw_steps' = <<>>
                /\ sweep_mw_power' = sweep_mw_power
        /\ Observe("set_sweep_parameters", 0, <<"mw.get_limits">>,
                   <<"sigParameterUpdated">>)
        /\ UNCHANGED <<paramVars, engineVars, tickVars, mapVars, total_time, hwVars,
                       pending, written, requests, remaining_time>>

\* start_eproc up to the call of mw_sweep_on
SweepStarting ==
    LET wait == Max(lia.tauA, lia.tauB) * lia.waiting_time_factor
    IN  /\ stopRequested' = FALSE
        /\ lia_waiting_time' = wait
        /\ elapsed_sweeps' = 0
        /\ elapsed_accumulations' = 0
        /\ actual_index' = 0
        /\ remaining_time' = RatZero
        /\ total_time' = Rat(PointTime(wait).num * pointCount * number_of_sweeps,
                             PointTime(wait).den)
        /\ requests' = {}
        /\ UNCHANGED <<paramVars, is_eproc_running, stopNextSweepRequested, tickVars,
                       mapVars, mw_starts, mw_stops, mw_steps, sweep_mw_power, hwVars>>

AfterSweepOnLocked(is_running) == "locked"

\* the module state after `if not is_running: self.module_state.unlock()`
AfterSweepOn(is_running) == IF is_running THEN "locked" ELSE "idle"

\* start_eproc; is_running is what get_status reports at the end of
\* mw_sweep_on
mwsweep_start_eproc(is_running) ==
    /\ tick_pc = "idle"
    /\ IF module_state = "locked"
       THEN /\ Observe("start_eproc", -1, <<>>, <<>>)
            /\ UNCHANGED <<paramVars, engineVars, tickVars, otherVars, hwVars, pending,
                           written, requests, remaining_time>>
       ELSE IF ~ListsSet
       THEN \* IndexError at mw_stops[0] in mw_sweep_on, after the lock
            /\ SweepStarting
            /\ module_state' = "locked"
            /\ Observe("start_eproc", Raised, <<"mw.fm_on", "mw.set_internal_trigger">>,
                       <<"sigParameterUpdated", "sigEprocRemainingTimeUpdated">>)
            /\ UNCHANGED <<eproc_plot_x, eproc_plot_y, eproc_raw_data, pending, written>>
       ELSE IF ~is_running
       THEN /\ SweepStarting
            /\ module_state' = AfterSweepOn(is_running)
            /\ Observe("start_eproc", -1,
                       <<"mw.fm_on", "mw.set_internal_trigger", "mw.set_sweep",
                         "mw.sweep_on", "mw.get_status">>,
                       <<"sigParameterUpdated", "sigEprocRemainingTimeUpdated",
                         "sigParameterUpdated", "sigOutputStateUpdated">>)
            /\ UNCHANGED <<eproc_plot_x, eproc_plot_y, eproc_raw_data, pending, written>>
       ELSE LET x == np_arange(mw_starts[1], mw_stops[1] + mw_steps[1], mw_steps[1])
            IN  /\ SweepStarting
                /\ module_state' = AfterSweepOn(is_running)
                /\ eproc_plot_x' = x
                /\ eproc_plot_y' = PlotY(x)
                /\ eproc_raw_data' = np_zeros(<<number_of_sweeps, number_of_accumulations,
                                                Len(x), NumChannels>>)
                /\ pending' = pending + 1
                /\ written' = <<>>
                /\ Observe("start_eproc", 0,
                           <<"mw.fm_on", "mw.set_internal_trigger", "mw.set_sweep",
                             "mw.sweep_on", "mw.get_status">>,
                           <<"sigParameterUpdated", "sigEprocRemainingTimeUpdated",
                             "sigParameterUpdated", "sigOutputStateUpdated",
                             "sigEprocPlotsUpdated", "sigNextMeasure">>)

mwsweep_stop_eproc ==
    /\ tick_pc = "idle"
    /\ stopRequested' = (stopRequested \/ module_state = "locked")
    /\ requests' = IF module_state = "locked"
                   THEN requests \cup {"stop_eproc"} ELSE requests
    /\ Observe("stop_eproc", 0, <<>>, <<>>)
    /\ UNCHANGED <<paramVars, module_state, is_eproc_running, stopNextSweepRequested,
                   elapsed_sweeps, elapsed_accumulations, elapsed_x, eproc_plot_x,
                   eproc_plot_y, eproc_raw_data, lia_waiting_time, tickVars, otherVars,
                   hwVars, pending, written, remaining_time>>

\* _next_measure, queued by sigNextMeasure; time.time() - _startTime is
\* taken as the sum of the sleeps so far
mwsweep_next_measure ==
    /\ pending > 0
    /\ tick_pc = "idle"
    /\ IF module_state # "locked"
       THEN /\ pending' = pending - 1
            /\ Observe("_next_measure", 0, <<>>, <<>>)
            /\ UNCHANGED <<paramVars, engineVars, tickVars, otherVars, hwVars, written,
                           requests, remaining_time>>
       ELSE IF stopRequested
       THEN /\ pending' = pending - 1
            /\ stopRequested' = FALSE
            /\ module_state' = "idle"
            /\ Observe("_next_measure", 0, <<"mw.off", "mw.get_status">>,
                       <<"sigOutputStateUpdated">>)
            /\ UNCHANGED <<paramVars, is_eproc_running, stopNextSweepRequested,
                           elapsed_sweeps, elapsed_accumulations, elapsed_x,
                           eproc_plot_x, eproc_plot_y, eproc_raw_data,
                           lia_waiting_time, tickVars, otherVars, hwVars, written,
                           requests, remaining_time>>
       ELSE LET raw == LegacyStore(eproc_raw_data, NextReading)
                acc == elapsed_accumulations + 1
                done == acc = number_of_accumulations
                last == actual_index = pointCount - 1
                points == elapsed_sweeps * pointCount + actual_index + 1
                spent == Rat(PointTime(lia_waiting_time).num * points,
                             PointTime(lia_waiting_time).den)
            IN  /\ eproc_raw_data' = raw
                /\ lia_reads' = (lia_reads + 1) % Len(lia_signal)
                /\ elapsed_accumulations' = IF done THEN 0 ELSE acc
                /\ eproc_plot_y' =
                       IF done
                       THEN [eproc_plot_y EXCEPT ![actual_index + 1] =
                                Incremental(eproc_plot_y[actual_index + 1], elapsed_sweeps,
                                            LegacyMean(raw, elapsed_sweeps, actual_index))]
                       ELSE eproc_plot_y
                /\ remaining_time' = IF done THEN RatMinus(total_time, spent)
                                     ELSE remaining_time
                /\ actual_index' = IF ~done THEN actual_index
                                   ELSE IF last THEN 0 ELSE actual_index + 1
                /\ elapsed_sweeps' = IF done /\ last THEN elapsed_sweeps + 1
                                     ELSE elapsed_sweeps
                /\ stopRequested' =
                       (stopRequested
                          \/ (done /\ last /\ elapsed_sweeps + 1 = number_of_sweeps))
                /\ pending' = pending
                /\ written' = Append(written, <<LegacyCell, raw.data[LegacyCell]>>)
                /\ Observe("_next_measure", 0,
                           (IF elapsed_accumulations = 0
                            THEN <<"mw.trigger", "sleep">> ELSE <<>>)
                           \o <<"sleep", "lia.get_data_lia">>
                           \o (IF done /\ last THEN <<"mw.reset_sweeppos">> ELSE <<>>),
                           (IF done
                            THEN <<"sigEprocRemainingTimeUpdated", "sigEprocPlotsUpdated">>
                            ELSE <<>>)
                           \o <<"sigNextMeasure">>)
                /\ UNCHANGED <<paramVars, module_state, is_eproc_running,
                               stopNextSweepRequested, eproc_plot_x, lia_waiting_time,
                               tickVars, otherVars, magnet, lia_signal, requests>>

\* SweepSpec: scans of eproc_mwsweep_logic.py
SweepInit ==
    /\ MapIdle([x |-> Axis(0, 0, 0), y |-> Axis(0, 0, 0), z |-> Axis(0, 0, 0)])
    /\ \E k \in 1..(MaxPoints - 1) :
          /\ SweepLists(k)
          /\ EngineInit({<<GoodA, GoodB>>, <<GoodA, BadC3>>}, 1..MaxSweep, {1, MaxAcc},
                        {k})
    /\ is_fs

SweepNext ==
    \/ \E is_running \in BOOLEAN : mwsweep_start_eproc(is_running)
    \/ mwsweep_stop_eproc
    \/ mwsweep_next_measure
    \/ \E k \in 0..(MaxPoints - 1), power \in {mw_power_default, 0} :
          set_sweep_parameters(k, power)

SweepSpec == SweepInit /\ [][SweepNext]_vars

(***************************************************************************)
(* QueueSpec: the four threadlock operations and the re-read loop, for the *)
(* event queue of sigNextDataPoint                                         *)
(***************************************************************************)
QueueNext ==
    \/ start_eproc
    \/ stop_eproc
    \/ stop_eproc_next_sweep
    \/ _next_data_point
    \/ reread_data_lia

QueueSpec == RetryInit /\ [][QueueNext]_vars

(***************************************************************************)
(* Properties                                                              *)
(***************************************************************************)
Locked == module_state = "locked"
StopCalled == "stop_eproc" \in requests
NextSweepCalled == "stop_eproc_next_sweep" \in requests
\* a run has ended and no other has started since
Stopped == module_state = "idle" /\ elapsed_x # Unset

TotalSamples == pointCount * n_accumulation * n_sweep

\* C1: start_eproc called while a run is in progress (with or without a pending
\* stop flag) returns -1 and changes no engine state: counters, stop flags, raw
\* cube, averaged series, lock state and stored parameters are unchanged, no
\* hardware is commanded and no tick is scheduled.
C1_BusyStartChangesNothing ==
    [][(lastOp' = "start_eproc" /\ Locked)
          => /\ ret' = -1
             /\ hw_calls' = <<>>
             /\ signals' = <<>>
             /\ UNCHANGED <<elapsed_sweeps, elapsed_accumulations, elapsed_x,
                            stopRequested, stopNextSweepRequested, eproc_raw_data,
                            eproc_plot_x, eproc_plot_y, module_state,
                            is_eproc_running, pending, magnet, paramVars,
                            lia_waiting_time, written, remaining_time>>]_vars

C1_Witness ==
    /\ lastOp = "start_eproc"
    /\ ret = -1
    /\ Locked
    /\ stopRequested
    /\ Len(written) > 0

\* C2: stop_eproc only sets the stop flag and never ends the run itself; the
\* first tick that begins with the flag set unlocks the module, clears
\* is_eproc_running and the flag, and neither sleeps, reads a sample, changes a
\* counter, the raw cube or the averaged series, nor schedules another tick.
C2_StopOnlyAtNextTick ==
    [][/\ (lastOp' = "stop_eproc" /\ Locked)
            => /\ stopRequested'
               /\ UNCHANGED <<module_state, is_eproc_running, elapsed_sweeps,
                              elapsed_accumulations, elapsed_x, eproc_raw_data,
                              eproc_plot_y, pending>>
       /\ (lastOp' = "_next_data_point" /\ tick_pc = "idle" /\ Locked
             /\ stopRequested)
            => /\ module_state' = "idle"
               /\ ~is_eproc_running'
               /\ ~stopRequested'
               /\ hw_calls' = <<>>
               /\ pending' = pending - 1
               /\ pending' = 0
               /\ "sigNextDataPoint" \notin {signals'[i] : i \in DOMAIN signals'}
               /\ UNCHANGED <<elapsed_sweeps, elapsed_accumulations, elapsed_x,
                              eproc_raw_data, eproc_plot_y, written, lia_reads>>]_vars

C2_Witness ==
    /\ Stopped
    /\ lastOp = "_next_data_point"
    /\ StopCalled
    /\ elapsed_accumulations > 0
    /\ elapsed_sweeps < n_sweep

\* C3: a run in which stop_eproc_next_sweep was requested and stop_eproc was
\* not ends only at a wrap of the point index: when it is Stopped,
\* elapsed_x = 0, elapsed_accumulations = 0 and elapsed_sweeps >= 1.
C3_NextSweepStopsAtWrap ==
    (Stopped /\ NextSweepCalled /\ ~StopCalled)
        => /\ elapsed_x = 0
           /\ elapsed_accumulations = 0
           /\ elapsed_sweeps >= 1

C3_Witness ==
    /\ Stopped
    /\ NextSweepCalled
    /\ ~StopCalled
    /\ elapsed_sweeps = 1
    /\ n_sweep > 1

\* the samples of the write log stored at point p in the sweeps 0..s
LogAt(p, s) == {i \in DOMAIN written : written[i][1][3] = p /\ written[i][1][2] <= s}

RECURSIVE LogSum(_, _)
LogSum(I, c) ==
    IF I = {} THEN 0
    ELSE LET i == CHOOSE i \in I : TRUE
         IN  written[i][2][c] + LogSum(I \ {i}, c)

\* the sweeps in which point p has received its last accumulation
ReducedSweeps(p) ==
    {written[i][1][2] : i \in {j \in DOMAIN written :
                                  /\ written[j][1][3] = p
                                  /\ written[j][1][1] = n_accumulation - 1}}

MaxOf(S) == CHOOSE m \in S : \A n \in S : n <= m

\* C5: once point p has been reduced in sweep s, eproc_plot_y[p] is, per
\* channel, the exact mean of the (s+1) * n_accumulation samples stored at p in
\* the sweeps 0..s, computed here from the log of the samples written.
C5_ReduceIsExactMean ==
    \A p \in 0..(pointCount - 1) :
        ReducedSweeps(p) # {}
            => LET s == MaxOf(ReducedSweeps(p))
                   I == LogAt(p, s)
               IN  /\ Cardinality(I) = (s + 1) * n_accumulation
                   /\ \A c \in 1..NumChannels :
                         /\ eproc_plot_y[p + 1][c].den > 0
                         /\ eproc_plot_y[p + 1][c].num * Cardinality(I)
                              = LogSum(I, c) * eproc_plot_y[p + 1][c].den

C5_Witness ==
    /\ Len(lia_signal) = 2
    /\ lia_signal[1] # lia_signal[2]
    /\ n_accumulation = 2
    /\ ReducedSweeps(0) # {}
    /\ MaxOf(ReducedSweeps(0)) = 1
    /\ eproc_plot_y[1][2].den = 2

C10_RemainingTimeZeroAtStopped ==
    Stopped => remaining_time.num = 0

\* C6: during and after a run the averaged series has exactly pointCount
\* (= eproc_plot_x.size) entries of 4 channels each, pointCount being the
\* number of grid points of the range stored when the run started.
C6_SeriesLengthIsPointCount ==
    /\ Len(eproc_plot_y) = Len(eproc_plot_x)
    /\ \A i \in DOMAIN eproc_plot_y : DOMAIN eproc_plot_y[i] = 1..NumChannels
    /\ Locked => pointCount = Len(PlotX(is_fs, fs, bs))
    /\ elapsed_x # Unset => pointCount = eproc_raw_data.shape[3]

C6_Witness ==
    /\ Stopped
    /\ Len(eproc_plot_y) = MaxPoints
    /\ eproc_plot_y[MaxPoints][1] # RatZero
    /\ Len(PlotX(is_fs, fs, bs)) # MaxPoints

\* C7: the raw cube is allocated in start_eproc, all zero and with the
\* dimensions n_accumulation x n_sweep x pointCount x 4, and between that
\* allocation and the transition to Stopped its dimensions never change.
C7_CubeAllocatedOncePerRun ==
    [][/\ (~Locked /\ Locked')
            => /\ eproc_raw_data'.shape
                    = <<n_accumulation', n_sweep', Len(eproc_plot_x'), NumChannels>>
               /\ DOMAIN eproc_raw_data'.data = Cells(eproc_raw_data'.shape)
               /\ \A cell \in Cells(eproc_raw_data'.shape) :
                     eproc_raw_data'.data[cell] = ZeroSample
       /\ Locked
            => /\ eproc_raw_data'.shape = eproc_raw_data.shape
               /\ DOMAIN eproc_raw_data'.data = DOMAIN eproc_raw_data.data
               /\ eproc_raw_data.shape
                    = <<n_accumulation, n_sweep, pointCount, NumChannels>>]_vars

C7_Witness ==
    /\ Stopped
    /\ eproc_raw_data.shape = <<MaxAcc, 1, MaxPoints, NumChannels>>
    /\ Len(written) = MaxAcc * MaxPoints
    /\ lastOp = "_next_data_point"

ParamOps ==
    {"set_fs_parameters", "set_bs_parameters", "set_lia_parameters",
     "set_ref_parameters", "set_eproc_scan_parameters", "set_frequency_multiplier",
     "set_psb_parameters", "set_psa_parameters", "fs_on", "bs_on",
     "lia_ext_ref_on", "lia_ext_ref_off"}

C9_RetriesBounded ==
    tick_pc = "retry" => retries < RetryCap

\* C11: within one run the remaining times emitted (the one of start_eproc,
\* then one per tick) never increase from one tick to the next, on the
\* frequency axis and on the field axis alike.
C11_RemainingTimeNonIncreasing ==
    [][(Locked /\ Locked' /\ lastOp' = "_next_data_point")
          => /\ remaining_time.den > 0
             /\ remaining_time'.den > 0
             /\ RatLeq(remaining_time', remaining_time)]_vars

C11_Witness ==
    /\ Locked
    /\ ~is_fs
    /\ lastOp = "_next_data_point"
    /\ elapsed_sweeps = 1
    /\ elapsed_x = 1
    /\ remaining_time.num > 0

\* the estimate of spec 4.4 for the frequency axis, settleTime being
\* lia_waiting_time
SpecEstimate ==
    lia_waiting_time * n_accumulation * (pointCount - elapsed_x)
        + lia_waiting_time * n_accumulation * pointCount * (n_sweep - elapsed_sweeps)

\* C12: on the frequency axis the remaining time emitted after every tick is
\* settleTime * n_accumulation * (pointCount - elapsed_x)
\*   + settleTime * n_accumulation * pointCount * (n_sweep - elapsed_sweeps).
C12_FrequencyEstimateFormula ==
    (Locked /\ is_fs /\ lastOp = "_next_data_point")
        => remaining_time = Rat(SpecEstimate, 1)

\* the cube holds every sample of the write log
LogKept ==
    \A i \in DOMAIN written :
        /\ written[i][1] \in DOMAIN eproc_raw_data.data
        /\ eproc_raw_data.data[written[i][1]] = written[i][2]

\* C13: stopping discards nothing: the tick that ends the run changes neither
\* a cell of the raw cube nor an entry of the averaged series, every sample
\* stored during the run is still in the cube, and both stay as they are
\* until the next start_eproc.
C13_StopKeepsData ==
    /\ [](elapsed_x # Unset => LogKept)
    /\ [][((Locked /\ stopRequested /\ lastOp' = "_next_data_point")
             \/ (~Locked /\ ~(lastOp' = "start_eproc" /\ ret' = 0)))
            => UNCHANGED <<eproc_raw_data, eproc_plot_y, written>>]_vars

C13_Witness ==
    /\ Stopped
    /\ StopCalled
    /\ lastOp # "_next_data_point"
    /\ elapsed_accumulations = 1
    /\ elapsed_x = 1
    /\ eproc_plot_y[1][1] # RatZero
    /\ Len(written) = n_accumulation + 1
    /\ LogKept

\* the mean, per channel, of the logged samples with indices I
LogMean(I) == [c \in 1..NumChannels |-> Rat(LogSum(I, c), Cardinality(I))]

\* the entry of point p before its first accumulation in sweep s: zero in the
\* first sweep, afterwards the mean reduced in sweep s - 1
PrePointValue(p, s) ==
    IF s = 0 THEN [c \in 1..NumChannels |-> RatZero] ELSE LogMean(LogAt(p, s - 1))

\* C14: a run stopped by stop_eproc in mid-accumulation of point p
\* (0 < elapsed_accumulations < n_accumulation) is Stopped with elapsed_x
\* still p and eproc_plot_y[p] not reduced: it has the value it had before
\* the first accumulation of p in the current sweep.
C14_StopMidAccumulationNoReduce ==
    (Stopped /\ StopCalled /\ elapsed_accumulations > 0)
        => /\ elapsed_accumulations < n_accumulation
           /\ written[Len(written)][1]
                = <<elapsed_accumulations - 1, elapsed_sweeps, elapsed_x>>
           /\ eproc_plot_y[elapsed_x + 1] = PrePointValue(elapsed_x, elapsed_sweeps)

C14_Witness ==
    /\ Stopped
    /\ StopCalled
    /\ elapsed_accumulations = 1
    /\ elapsed_sweeps = 1
    /\ elapsed_x = 1
    /\ eproc_plot_y[2][1] # RatZero
    /\ eproc_plot_y[2] # np_mean(eproc_raw_data, 2, 1)

\* C15: during the first repeat of a run (elapsed_sweeps = 0), and in the
\* state in which the run ends early, eproc_plot_y[q] is the zero vector for
\* every point q >= elapsed_x and the mean of the samples stored at q for
\* every point q < elapsed_x.
C15_FirstRepeatSeries ==
    (elapsed_x # Unset /\ elapsed_sweeps = 0)
        => \A q \in 0..(pointCount - 1) :
              IF q >= elapsed_x
              THEN eproc_plot_y[q + 1] = [c \in 1..NumChannels |-> RatZero]
              ELSE /\ Cardinality(LogAt(q, 0)) = n_accumulation
                   /\ eproc_plot_y[q + 1] = LogMean(LogAt(q, 0))

C15_Witness ==
    /\ Stopped
    /\ StopCalled
    /\ elapsed_sweeps = 0
    /\ elapsed_x = 2
    /\ pointCount = 3
    /\ n_accumulation = 2
    /\ eproc_plot_y[1][2] # RatZero
    /\ eproc_plot_y[2][1] # RatZero

\* ticks queued (sigNextDataPoint events) plus ticks executing
TicksInFlight == pending + (IF tick_pc = "retry" THEN 1 ELSE 0)

\* C16: at most one tick is pending or executing; sigNextDataPoint is emitted
\* only by a successful start_eproc or at the end of a tick that leaves the
\* module locked; and while the module is not locked no tick is pending.
C16_AtMostOneTick ==
    /\ [](TicksInFlight <= 1)
    /\ [](~Locked => TicksInFlight = 0)
    /\ [][(pending' > pending
             => \/ lastOp' = "start_eproc" /\ ret' = 0 /\ ~Locked /\ pending = 0
                \/ lastOp' = "_next_data_point" /\ tick_pc = "retry" /\ Locked')
          /\ ("sigNextDataPoint" \in {signals'[i] : i \in DOMAIN signals'}
             => (Locked' /\ TicksInFlight' = 1 /\ pending' = 1))]_vars

C16_Witness ==
    /\ Stopped
    /\ pending = 0
    /\ NextSweepCalled
    /\ lastOp = "_next_data_point"
    /\ elapsed_sweeps < n_sweep
    /\ Len(written) > 0
    /\ \E i \in DOMAIN lia_signal : Invalid(lia_signal[i][1])

\* C17: for every (start, step, stop) with step /= 0 the stop rule of
\* set_fs_parameters/set_bs_parameters followed by _check_range leaves
\* stop' >= start with (stop' - start) a multiple of step, on both axes.
C17_NormalizedStopOnGrid ==
    (lastOp = "_check_range" /\ ret = 0)
        => /\ fs.stop >= fs.start
           /\ (fs.stop - fs.start) % Abs(fs.step) = 0
           /\ bs.stop >= bs.start
           /\ (bs.stop - bs.start) % Abs(bs.step) = 0

\* C18: a sweep step of 0 is rejected and the stored range left as it was:
\* no stored step is ever 0.
C18_ZeroStepRejected ==
    fs.step # 0 /\ bs.step # 0

\* the stored range of the active axis
ActiveAxis == IF is_fs THEN [start |-> fs.start, step |-> fs.step, stop |-> fs.stop]
                       ELSE [start |-> bs.start, step |-> bs.step, stop |-> bs.stop]

\* C19: while a run is Running the stored stop of the active axis is
\* start + n * step for an integer n >= 0, n being the rounded number of
\* steps to the requested stop, and pointCount = n + 1.
C19_RunningStopOnGrid ==
    Locked
        => LET a == ActiveAxis
               n == np_rint(a.stop - a.start, a.step)
           IN  /\ n >= 0
               /\ a.stop = a.start + n * a.step
               /\ pointCount = n + 1

\* C20: once stop_eproc has returned during a run no further sample is
\* stored (at most one, that of a tick in flight, which holds threadlock
\* until it is done): the only step that follows in the run is the tick that
\* ends it; and when every queued tick is delivered the run becomes Stopped.
C20_StopWithinOneTick ==
    /\ [][((lastOp' = "stop_eproc" /\ Locked)
              => (stopRequested' /\ Len(written') = Len(written)))
          /\ ((Locked /\ stopRequested)
              => (/\ written' = written
                  /\ eproc_raw_data' = eproc_raw_data
                  /\ Locked' \/ lastOp' = "_next_data_point"))]_vars
    /\ ((Locked /\ lastOp = "stop_eproc") ~> Stopped)

C20_Witness ==
    /\ Stopped
    /\ StopCalled
    /\ ~NextSweepCalled
    /\ lastOp = "_next_data_point"
    /\ ~is_fs
    /\ elapsed_sweeps = 1
    /\ elapsed_x = 1
    /\ Len(written) < TotalSamples

\* the hardware calls of a sequence that are among the names N
CallsOf(calls, N) == SelectSeq(calls, LAMBDA c : c \in N)

\* C21: a successful start_eproc, from Idle or from Stopped alike, yields the
\* fresh Running state of the stored parameters: counters 0, stop flags
\* false, cube and series all zero, module locked, the axis stepped exactly
\* once and standing at the first point, exactly one tick queued; the log
\* and the requests of the previous run are gone.
C21_StartIsFresh ==
    [][(lastOp' = "start_eproc" /\ ret' = 0)
          => (/\ ~Locked /\ Locked' /\ is_eproc_running'
              /\ elapsed_sweeps' = 0 /\ elapsed_accumulations' = 0 /\ elapsed_x' = 0
              /\ ~stopRequested' /\ ~stopNextSweepRequested'
              /\ eproc_plot_x' = PlotX(is_fs', fs', bs')
              /\ eproc_plot_y'
                   = [i \in 1..Len(eproc_plot_x') |-> [c \in 1..NumChannels |-> RatZero]]
              /\ eproc_raw_data'.shape
                   = <<n_accumulation', n_sweep', Len(eproc_plot_x'), NumChannels>>
              /\ \A cell \in DOMAIN eproc_raw_data'.data :
                    eproc_raw_data'.data[cell] = ZeroSample
              /\ Len(CallsOf(hw_calls', {"mw.trigger", "magnet.trigger"})) = 1
              /\ CallsOf(hw_calls', {"mw.reset_sweeppos", "magnet.reset_sweeppos"}) = <<>>
              /\ hw_calls'[Len(hw_calls')] \in {"mw.trigger", "magnet.trigger"}
              /\ (~is_fs' => /\ magnet'.field = eproc_plot_x'[1]
                             /\ magnet'.sweep_list = eproc_plot_x'
                             /\ magnet'.remaining_fields = Tail(eproc_plot_x'))
              /\ (is_fs' => magnet'.field = fs'.field)
              /\ pending = 0 /\ pending' = 1
              /\ written' = <<>> /\ requests' = {}
              /\ tick_pc' = "idle")]_vars

C21_Witness ==
    /\ Locked
    /\ lastOp = "start_eproc"
    /\ ret = 0
    /\ ~is_fs
    /\ pointCount = 2
    /\ n_accumulation = MaxAcc
    /\ magnet.field = eproc_plot_x[1]
    /\ lia_reads > 0

\* C22: while a run is Running no operation other than the tick commands
\* the microwave source, the magnet, the lock-in or a power supply, or
\* assigns bs_frequency/bs_mw_power.
C22_EngineOwnsHardware ==
    [][(Locked /\ lastOp' # "_next_data_point")
          => (hw_calls' = <<>> /\ bs' = bs)]_vars

\* C23: the sample _get_data_lia leaves in the cube cell is valid on every
\* channel (magnitude >= 1e-7), whatever the lock-in returned on the way.
C23_StoredSampleValid ==
    \A i \in DOMAIN written :
        \A c \in 1..NumChannels : ~Invalid(written[i][2][c])

\* the axis commands among the hardware calls of a step
AxisCalls(calls) ==
    CallsOf(calls, {"mw.trigger", "magnet.trigger", "mw.reset_sweeppos",
                    "magnet.reset_sweeppos"})

Emitted == {signals[i] : i \in DOMAIN signals}

\* C25: a tick notifies the observers of the series (sigEprocPlotsUpdated)
\* and of the progress (sigEprocRemainingTimeUpdated) only if it has just
\* completed a point; the tick that ends the run emits sigStatusUpdated
\* exactly once.
C25_NotifyOnCompletedPointOnly ==
    [][(lastOp' = "_next_data_point" /\ Locked /\ tick_pc' = "idle")
          => (/\ (~stopRequested /\ elapsed_accumulations + 1 < n_accumulation)
                    => (/\ "sigEprocPlotsUpdated" \notin Emitted'
                        /\ "sigEprocRemainingTimeUpdated" \notin Emitted')
              /\ stopRequested
                    => Len(SelectSeq(signals', LAMBDA g : g = "sigStatusUpdated")) = 1)]_vars

\* the points a run has still to measure
PointsLeft == (n_sweep - elapsed_sweeps) * pointCount - elapsed_x

\* C26: on the field axis the remaining time is the per-point time times the
\* points still to measure plus SETTLING_TIME_LARGE once per remaining
\* repeat, a whole multiple of the re-homing cost at every tick; on the
\* frequency axis no such cost is added.
C26_RehomingCostPerRepeat ==
    Locked
        => IF is_fs
           THEN remaining_time = Rat(n_accumulation * lia_waiting_time * PointsLeft, 1)
           ELSE remaining_time
                  = Rat((n_accumulation * lia_waiting_time + SETTLING_TIME) * PointsLeft
                          + SETTLING_TIME_LARGE * (n_sweep - elapsed_sweeps), 1)

C28_StopRequestsScoped ==
    /\ [](Locked => ((StopCalled => stopRequested)
                      /\ (NextSweepCalled => stopNextSweepRequested)
                      /\ ((requests = {} /\ stopRequested)
                             => Len(written) = TotalSamples)))
    /\ [][((Locked /\ StopCalled /\ lastOp' = "_next_data_point")
              => (~Locked' /\ written' = written))
          /\ ((Locked /\ NextSweepCalled /\ elapsed_sweeps' = elapsed_sweeps + 1)
              => stopRequested')
          /\ ((~Locked /\ lastOp' \in {"stop_eproc", "stop_eproc_next_sweep"})
              => (UNCHANGED <<stopRequested, stopNextSweepRequested, requests,
                              engineVars, pending, written>>))
          /\ ((~Locked /\ Locked')
              => (~stopRequested' /\ ~stopNextSweepRequested' /\ requests' = {}))
          /\ ((Locked /\ ~Locked' /\ requests = {})
              => Len(written) = TotalSamples)]_vars

C28_Witness ==
    /\ Stopped
    /\ requests = {}
    /\ Len(written) = TotalSamples
    /\ n_sweep = MaxSweep
    /\ lastOp = "stop_eproc_next_sweep"
    /\ ~stopNextSweepRequested
    /\ ~stopRequested

MagnetPosition == Len(magnet.sweep_list) - Len(magnet.remaining_fields)

\* C30: in a field sweep the magnet's list has pointCount entries, its
\* position is elapsed_x + 1 whenever a sample is read, and trigger() is
\* never called with remaining_fields empty.
C30_MagnetPositionTracksX ==
    /\ []((Locked /\ ~is_fs)
           => (/\ Len(magnet.sweep_list) = pointCount
               /\ MagnetPosition = elapsed_x + 1
               /\ magnet.field = eproc_plot_x[elapsed_x + 1]))
    /\ [][(~is_fs /\ lastOp' = "start_eproc" /\ ret' = 0)
              => (magnet'.sweep_list # <<>>
                  /\ AxisCalls(hw_calls') = <<"magnet.trigger">>
                  /\ magnet'.remaining_fields = Tail(magnet'.sweep_list))]_vars
    /\ [][(~is_fs /\ lastOp' = "_next_data_point"
                  /\ AxisCalls(hw_calls') = <<"magnet.trigger">>)
              => (magnet.remaining_fields # <<>>
                  /\ magnet'.remaining_fields = Tail(magnet.remaining_fields))]_vars
    /\ [][(~is_fs /\ AxisCalls(hw_calls')
                      = <<"magnet.reset_sweeppos", "magnet.trigger">>)
              => (magnet.sweep_list # <<>>
                  /\ magnet'.remaining_fields = Tail(magnet.sweep_list))]_vars

C30_Witness ==
    /\ Locked
    /\ ~is_fs
    /\ lastOp = "_next_data_point"
    /\ AxisCalls(hw_calls) = <<"magnet.reset_sweeppos", "magnet.trigger">>
    /\ elapsed_sweeps = 1
    /\ elapsed_sweeps < n_sweep
    /\ pointCount = MaxPoints
    /\ MagnetPosition = 1
    /\ NextSweepCalled = FALSE

\* C31: whenever the module is locked the cube dimensions are
\* (n_accumulation, n_sweep, pointCount, 4) for the stored n_accumulation,
\* n_sweep and sweep range, also when set_eproc_scan_parameters is
\* interleaved with start_eproc.
C31_CubeMatchesStoredPlan ==
    Locked => eproc_raw_data.shape
                = <<n_accumulation, n_sweep, Len(PlotX(is_fs, fs, bs)), NumChannels>>

\* the cube of src/logic/eproc_logic.py in the index order of eproc/:
\* [accumulation, sweep, point, channel]
Transposed(raw) ==
    LET shape == <<raw.shape[2], raw.shape[1], raw.shape[3], raw.shape[4]>>
    IN  [shape |-> shape,
         data |-> [cell \in Cells(shape) |-> raw.data[<<cell[2], cell[1], cell[3]>>]]]

\* the sweeps in which point p (from 0) has been completed
CompletedSweeps(p) == IF p < actual_index THEN elapsed_sweeps + 1 ELSE elapsed_sweeps

\* C32: after every completed point the series kept by the incremental
\* update of src/logic/eproc_logic.py equals, point by point, the full
\* recompute of eproc/eproc_logic.py from the raw cube: the mean over all
\* accumulations and over the sweeps completed at that point.
C32_IncrementalEqualsRecompute ==
    (elapsed_x # Unset /\ tick_pc = "idle")
        => \A p \in 0..(pointCount - 1) :
              eproc_plot_y[p + 1]
                = IF CompletedSweeps(p) = 0
                  THEN [c \in 1..NumChannels |-> RatZero]
                  ELSE np_mean(Transposed(eproc_raw_data), CompletedSweeps(p), p)

C32_Witness ==
    /\ elapsed_x # Unset
    /\ tick_pc = "idle"
    /\ lastOp = "_next_measure"
    /\ elapsed_sweeps = MaxSweep - 1
    /\ actual_index = 1
    /\ eproc_plot_y[1] # LegacyMean(eproc_raw_data, elapsed_sweeps, 0)
    /\ eproc_plot_y[1] # LegacyMean(eproc_raw_data, 0, 0)

\* C33: in src/logic/eproc_logic.py a reading with all 4 channels of
\* magnitude >= 1e-7 (negative values included) is accepted on the first
\* read: the tick stores it, does not re-read and completes.
C33_ValidReadingAccepted ==
    [][(lastOp' = "_next_measure" /\ Locked /\ ~stopRequested /\ tick_pc = "idle"
          /\ pending > 0
          /\ \A c \in 1..NumChannels : ~Invalid(NextReading[c]))
          => (tick_pc' = "idle"
              /\ written' = Append(written, <<LegacyCell, NextReading>>))]_vars

\* C34: in magnet_mapping_logic.py start_eproc called while a scan is running
\* returns -1, leaves the counters, the raw cube and the averaged series
\* untouched and queues no second tick.
C34_SecondStartRefused ==
    [][(lastOp' = "start_eproc" /\ is_eproc_running)
          => (ret' = -1
              /\ UNCHANGED <<elapsed_sweeps, elapsed_accumulations, actual_index,
                             eproc_raw_data, eproc_plot_y, pending>>)]_vars

\* C35: in eproc_mwsweep_logic.py set_sweep_parameters called while the logic
\* is locked leaves mw_starts, mw_stops, mw_steps and sweep_mw_power as they
\* were before the call.
C35_LockedSweepSetterKeepsLists ==
    [][(lastOp' = "set_sweep_parameters" /\ module_state = "locked")
          => UNCHANGED <<mw_starts, mw_stops, mw_steps, sweep_mw_power>>]_vars

\* C36: a start_eproc of eproc_mwsweep_logic.py during which mw_sweep_on
\* reports not running returns -1 with the module unlocked, stopRequested
\* false and no tick queued, and a start_eproc taken from such a state is not
\* refused for being locked; a start_eproc that returns 0 leaves the module
\* locked and exactly one tick queued.
C36_FailedStartLeavesIdle ==
    [][(lastOp' = "start_eproc" /\ module_state # "locked" /\ ListsSet)
          => \/ /\ ret' = -1
                /\ module_state' = "idle"
                /\ ~stopRequested'
                /\ pending' = 0
                /\ pending = 0
             \/ /\ ret' = 0
                /\ module_state' = "locked"
                /\ pending' = 1]_vars

\* a start has failed because the source did not run, after an earlier scan
C36_Witness ==
    /\ lastOp = "start_eproc"
    /\ ret = -1
    /\ hw_calls # <<>>
    /\ module_state = "idle"
    /\ ~stopRequested
    /\ pending = 0
    /\ written # <<>>

\* the steps of one motor and the number of positions of the grid
StepsOf(a) == IF a.step = 0 THEN 0 ELSE (a.stop - a.start) \div a.step

GridSize == (StepsOf(motors.x) + 1) * (StepsOf(motors.y) + 1) * (StepsOf(motors.z) + 1)

\* the i-th position (from 0) of the grid, x fastest
GridPosition(i) ==
    LET nx == StepsOf(motors.x) + 1
        ny == StepsOf(motors.y) + 1
    IN  [x |-> motors.x.start + (i % nx) * motors.x.step,
         y |-> motors.y.start + ((i \div nx) % ny) * motors.y.step,
         z |-> motors.z.start + (i \div (nx * ny)) * motors.z.step]

\* C37: a mapping run starts exactly one spectrum at each position of the
\* grid, x fastest, and once _next_position has processed the last position
\* nothing is queued and neither is_eproc_running nor
\* is_eproc_mapping_running is set.
C37_OneSpectrumPerPosition ==
    /\ Len(spectra) <= GridSize
    /\ \A i \in DOMAIN spectra : spectra[i] = GridPosition(i - 1)
    /\ (Len(spectra) = GridSize /\ ~is_eproc_mapping_running)
          => (/\ pending = 0 /\ start_pending = 0 /\ position_pending = 0
              /\ ~is_eproc_running)

\* C38: the normalization is idempotent: on the ranges a _check_range has
\* left (step /= 0), the rule of _check_range gives the stop that is stored,
\* for the frequency and the field range.
C38_CheckRangeIdempotent ==
    (lastOp = "_check_range" /\ ret = 0)
        => /\ CheckRange(fs.start, fs.step, fs.stop) = fs.stop
           /\ CheckRange(bs.start, bs.step, bs.stop) = bs.stop

\* a _check_range has moved both stops: half a step above the start is
\* rounded down to the start, one and a half steps up to two steps
C38_Witness ==
    /\ lastOp = "_check_range"
    /\ ret = 0
    /\ fs.step = fs_step_default
    /\ fs.stop = fs.start
    /\ bs.step = bs_step_default
    /\ bs.stop = bs.start + 2 * bs.step

====
